---- MODULE Spec2Model ----
(***************************************************************************)
(* JPFinder: a model of the text normalizer, the index builder (ingest),   *)
(* the query compiler, the retriever and the highlighter.                  *)
(*                                                                         *)
(* Text is a sequence of characters.  Each character of the model stands   *)
(* for one class of Unicode code points:                                   *)
(*   "a"  a kana letter (reading "a")                                      *)
(*   "K"  a kanji whose reading is the kana "a"                            *)
(*   " "  U+0020 SPACE                                                     *)
(*   "I"  U+3000 IDEOGRAPHIC SPACE (NFKC maps it to U+0020)                *)
(*   "L"  U+200E LEFT-TO-RIGHT MARK (a bidi control, not whitespace)       *)
(*   "m"  U+3099 COMBINING VOICED SOUND MARK                               *)
(*   "c"  the precomposed letter "a" + "m" (NFKC composes the pair)        *)
(*   "q"  U+0022 QUOTATION MARK                                            *)
(*   "x"  a symbol the dictionary has no reading for (reading_form "")     *)
(*   "w"  a symbol whose dictionary reading is a blank                     *)
(*   "s"  a symbol whose dictionary reading is the placeholder "*"         *)
(* Offsets are Python offsets: 0-based, half-open [s, e).                  *)
(***************************************************************************)
EXTENDS Integers, Sequences, FiniteSets, TLC

VARIABLES
    nz_pc, nz_in, nz_out, nz_again,     \* normalizer: jp_clean applied once and twice
    entries,        \* table entries: the rows in rowid order (rowid = position)
    fts,            \* table fts: the index records written, in insertion order
    ingested,       \* the ids handed to insert_entry / insert_batch so far
    n_ops,          \* number of ingest operations performed
    hl_pc, hl_text, hl_phrases, hl_surf, hl_read,   \* highlighter: the inputs
    hl_out,         \* the labeled spans build_highlight_html wraps
    hl_html,        \* the html it returns, as its pieces
    q_pc, q_query, q_phrases, q_topn,   \* retriever: the arguments of query_hits
    q_engine,       \* what the storage engine lacks: nothing, the fts table, bm25
    q_expr,         \* the match expression build_match_query compiled
    q_execs,        \* the queries sent to storage, in order
    q_cands,        \* the candidate rows storage returned
    q_rows,         \* the rows query_hits returned
    q_outcome,      \* "returned" or "raised"
    q_note,         \* the status note do_search shows for the rows
    sn_files,       \* snippet cache: the file at each cache name
    sn_last,        \* the last call of make_snippet
    ml_links,       \* table media_links: stem -> media path
    fs_media,       \* the media files on disk
    cfg_root,       \* the configured media root, or NoPath
    ps_last,        \* the last run of play_selected
    lrc_pc, lrc_file, lrc_out,      \* parse_lrc: a lyric file and its entries
    wk_pc, wk_files, wk_i,          \* IndexerWorker.run: position, files, index
    wk_cancel,      \* IndexerWorker._cancel
    wk_total,       \* total_entries
    wk_txn,         \* the batches written in the open transaction
    wk_db,          \* the batches committed to the database file
    wk_sigs,        \* the signals emitted, in order
    rd_pc, rd_text, rd_out,         \* reading derivation: a text, its readings
    si_pc, si_a, si_bs, si_out,     \* subtract_intervals: a, bs and the result
    rc_calls,       \* concurrent make_snippet calls: position and locals of each
    rc_files,       \* the file at each cache name they share
    rc_wrote        \* the calls whose transcoder opened each cache name

nzvars == <<nz_pc, nz_in, nz_out, nz_again>>
dbvars == <<entries, fts, ingested, n_ops>>
hlvars == <<hl_pc, hl_text, hl_phrases, hl_surf, hl_read, hl_out, hl_html>>
qvars  == <<q_pc, q_query, q_phrases, q_topn, q_engine, q_expr, q_execs, q_cands,
            q_rows, q_outcome, q_note>>
snvars == <<sn_files, sn_last>>
plvars == <<ml_links, fs_media, cfg_root, ps_last>>
lrcvars == <<lrc_pc, lrc_file, lrc_out>>
wkvars == <<wk_pc, wk_files, wk_i, wk_cancel, wk_total, wk_txn, wk_db, wk_sigs>>

rdvars == <<rd_pc, rd_text, rd_out>>

\* the functions checked on their own
sivars == <<si_pc, si_a, si_bs, si_out>>
rcvars == <<rc_calls, rc_files, rc_wrote>>
pvars == <<rdvars, sivars, rcvars>>

\* the playback and the ingest-worker side of the program
xvars == <<snvars, plvars, lrcvars, wkvars, pvars>>

vars == <<nzvars, dbvars, hlvars, qvars, xvars>>

----------------------------------------------------------------------------
(* Bounds of the model *)

MaxRawLen == 3

----------------------------------------------------------------------------
(* Sequences *)

RECURSIVE SeqsUpTo(_, _)
SeqsUpTo(S, n) ==
    IF n = 0 THEN {<<>>}
    ELSE LET shorter == SeqsUpTo(S, n - 1)
         IN  shorter \cup {Append(s, c) : s \in {t \in shorter : Len(t) = n - 1}, c \in S}

\* text[s:e] of Python, for 0 <= s <= e <= len(text)
Slice(text, s, e) == SubSeq(text, s + 1, e)

----------------------------------------------------------------------------
(* Text normalizer *)

\* the compatibility decomposition of one character
Decomp(c) ==
    CASE c = "I" -> <<" ">>
      [] c = "c" -> <<"a", "m">>
      [] OTHER   -> <<c>>

RECURSIVE Decompose(_)
Decompose(s) == IF s = <<>> THEN <<>> ELSE Decomp(Head(s)) \o Decompose(Tail(s))

\* canonical composition: a base letter directly followed by its mark
RECURSIVE Compose(_)
Compose(s) ==
    IF s = <<>> THEN <<>>
    ELSE IF Len(s) >= 2 /\ s[1] = "a" /\ s[2] = "m"
         THEN <<"c">> \o Compose(SubSeq(s, 3, Len(s)))
         ELSE <<Head(s)>> \o Compose(Tail(s))

\* unicodedata.normalize("NFKC", x)
Normalize(s) == Compose(Decompose(s))

\* str.isspace
IsSpace(c) == c \in {" ", "I"}

RECURSIVE LStrip(_)
LStrip(s) == IF s # <<>> /\ IsSpace(Head(s)) THEN LStrip(Tail(s)) ELSE s

RECURSIVE RStrip(_)
RStrip(s) ==
    IF s # <<>> /\ IsSpace(s[Len(s)]) THEN RStrip(SubSeq(s, 1, Len(s) - 1)) ELSE s

\* str.strip()
Strip(s) == RStrip(LStrip(s))

nfkc(text) == Strip(Normalize(text))

\* the characters BIDI_CTRL_RE matches
BIDI_CTRL == {"L"}

clean_controls_keep(text) == text

clean_controls(text) == SelectSeq(text, LAMBDA c : c \notin BIDI_CTRL)

jp_clean(text) == clean_controls(nfkc(text))

----------------------------------------------------------------------------
(* Specification of the normalizer: any raw string, cleaned once, then the  *)
(* result cleaned again.                                                    *)

RawChars == {"a", " ", "I", "L", "m", "c"}

NzIdle == nz_pc = "idle" /\ nz_in = <<>> /\ nz_out = <<>> /\ nz_again = <<>>
DbEmpty == entries = <<>> /\ fts = <<>> /\ ingested = {} /\ n_ops = 0

HlIdle ==
    /\ hl_pc = "idle" /\ hl_text = <<>> /\ hl_phrases = <<>>
    /\ hl_surf = {} /\ hl_read = {} /\ hl_out = <<>> /\ hl_html = <<>>

NoExpr == [kind |-> "None", groups |-> <<>>]

\* no status note shown
NoNote == [hits |-> -1, phrases |-> <<>>]

QIdle ==
    /\ q_pc = "idle" /\ q_query = <<>> /\ q_phrases = <<>> /\ q_topn = 0
    /\ q_engine = "ok" /\ q_expr = NoExpr /\ q_execs = <<>> /\ q_cands = <<>>
    /\ q_rows = <<>> /\ q_outcome = "" /\ q_note = NoNote

\* None, where a path is expected
NoPath == [dir |-> <<>>, stem |-> "", ext |-> ""]

\* no file at a cache name
NoFile == [size |-> -1, by |-> ""]

\* make_snippet not called yet
NoCall ==
    [key |-> <<>>, out |-> <<>>, pre |-> NoFile, ran |-> FALSE, ss |-> 0, dur |-> 0,
     exit |-> -1, ret |-> "", raised |-> FALSE]

\* play_selected not run yet
NoPlay ==
    [src |-> NoPath, row |-> NoPath, bound |-> NoPath, searched |-> FALSE,
     cands |-> <<>>, confirmed |-> FALSE, media |-> NoPath, outcome |-> "idle",
     disk |-> <<>>]

SnIdle == sn_files = <<>> /\ sn_last = NoCall

PlIdle == ml_links = <<>> /\ fs_media = {} /\ cfg_root = NoPath /\ ps_last = NoPlay

LrcIdle == lrc_pc = "idle" /\ lrc_file = <<>> /\ lrc_out = <<>>

WkIdle ==
    /\ wk_pc = "idle" /\ wk_files = <<>> /\ wk_i = 0 /\ wk_cancel = FALSE
    /\ wk_total = 0 /\ wk_txn = <<>> /\ wk_db = <<>> /\ wk_sigs = <<>>

RdIdle == rd_pc = "idle" /\ rd_text = <<>> /\ rd_out = <<>>

SiIdle == si_pc = "idle" /\ si_a = [s |-> 0, e |-> 0] /\ si_bs = <<>> /\ si_out = <<>>

RcIdle == rc_calls = <<>> /\ rc_files = <<>> /\ rc_wrote = <<>>

PIdle == RdIdle /\ SiIdle /\ RcIdle

XIdle == SnIdle /\ PlIdle /\ LrcIdle /\ WkIdle /\ PIdle

InitClean ==
    /\ nz_pc = "raw"
    /\ nz_in \in SeqsUpTo(RawChars, MaxRawLen)
    /\ nz_out = <<>>
    /\ nz_again = <<>>
    /\ DbEmpty
    /\ HlIdle
    /\ QIdle
    /\ XIdle

CleanOnce ==
    /\ nz_pc = "raw"
    /\ nz_out' = jp_clean(nz_in)
    /\ nz_pc' = "once"
    /\ UNCHANGED <<nz_in, nz_again, dbvars, hlvars, qvars, xvars>>

CleanAgain ==
    /\ nz_pc = "once"
    /\ nz_again' = jp_clean(nz_out)
    /\ nz_pc' = "twice"
    /\ UNCHANGED <<nz_in, nz_out, dbvars, hlvars, qvars, xvars>>

NextClean == CleanOnce \/ CleanAgain

SpecClean == InitClean /\ [][NextClean]_vars

\* C3: jp_clean is idempotent: cleaning the cleaned string changes nothing.
C3_Idempotent == nz_pc = "twice" => nz_again = nz_out

----------------------------------------------------------------------------
(* Tokenizer: the Sudachi dictionary of the model.  tokenize() segments a   *)
(* text by greedy longest match against the words of the lexicon; a         *)
(* character that starts no word is a morpheme of its own.                  *)

\* the multi-character words, with their reading_form
Lexicon ==
    { [surface |-> <<"K", "a">>,      reading_form |-> <<"a", "a">>],
      [surface |-> <<"K", "a", "K">>, reading_form |-> <<"a", "a", "a">>] }

\* reading_form of a single-character morpheme
CharReading(c) ==
    CASE c = "K" -> <<"a">>
      [] c = "x" -> <<>>
      [] c = "w" -> <<" ">>
      [] c = "s" -> <<"*">>
      [] OTHER   -> <<c>>

IsPrefix(w, s) == Len(w) <= Len(s) /\ SubSeq(s, 1, Len(w)) = w

\* the morpheme that starts the non-empty text s
FirstMorpheme(s) ==
    LET ws == {w \in Lexicon : IsPrefix(w.surface, s)}
    IN  IF ws = {}
        THEN [surface |-> <<Head(s)>>, reading_form |-> CharReading(Head(s))]
        ELSE CHOOSE w \in ws : \A v \in ws : Len(v.surface) <= Len(w.surface)

RECURSIVE TokenizeFrom(_, _)
TokenizeFrom(s, at) ==
    IF s = <<>> THEN <<>>
    ELSE LET w == FirstMorpheme(s)
             n == Len(w.surface)
         IN  <<[surface |-> w.surface, reading_form |-> w.reading_form,
                begin |-> at, end |-> at + n]>>
             \o TokenizeFrom(SubSeq(s, n + 1, Len(s)), at + n)

\* _sudachi.tokenize(text, _mode): morphemes with surface(), reading_form(),
\* begin() and end()
tokenize(text) == TokenizeFrom(text, 0)

\* the strings of ss stripped, the blank ones dropped
RECURSIVE StripNonEmpty(_)
StripNonEmpty(ss) ==
    IF ss = <<>> THEN <<>>
    ELSE LET t == Strip(Head(ss))
         IN  (IF t # <<>> THEN <<t>> ELSE <<>>) \o StripNonEmpty(Tail(ss))

\* tokenize_surface of build_index.py, indexer_gui.py, app_ui.py, search.py
tokenize_surface(text) ==
    LET ms == tokenize(text)
    IN  StripNonEmpty([i \in DOMAIN ms |-> ms[i].surface])

\* tokenize_reading_kana of build_index.py: "" and "*" fall back to the surface
bi_tokenize_reading_kana(text) ==
    LET ms == tokenize(text)
    IN  StripNonEmpty([i \in DOMAIN ms |->
            IF ms[i].reading_form = <<>> \/ ms[i].reading_form = <<"*">>
            THEN ms[i].surface ELSE ms[i].reading_form])

\* reading_form() or surface()
ReadingOrSurface(m) == IF m.reading_form # <<>> THEN m.reading_form ELSE m.surface

\* tokenize_reading_kana of indexer_gui.py
ig_tokenize_reading_kana(text) ==
    LET ms == tokenize(text)
    IN  StripNonEmpty([i \in DOMAIN ms |-> ReadingOrSurface(ms[i])])

\* " ".join(tokens)
RECURSIVE JoinSpace(_)
JoinSpace(toks) ==
    IF toks = <<>> THEN <<>>
    ELSE IF Len(toks) = 1 THEN Head(toks)
    ELSE Head(toks) \o <<" ">> \o JoinSpace(Tail(toks))

----------------------------------------------------------------------------
(* Storage: table entries (id UNIQUE) and the external-content FTS5 table   *)
(* fts.  An INSERT INTO fts(rowid, ...) adds the record's terms to the      *)
(* index under that rowid whether or not the rowid is indexed already.      *)

HasId(tbl, id) == \E i \in DOMAIN tbl : tbl[i].id = id

\* SELECT rowid FROM entries WHERE id = ?
RowidOf(tbl, id) == CHOOSE i \in DOMAIN tbl : tbl[i].id = id

EntryRow(row) ==
    [id |-> row.id, text |-> row.text,
     context_prev |-> row.context_prev, context_next |-> row.context_next]

InsertAlways(tbl, row) == Append(tbl, EntryRow(row))

\* INSERT OR IGNORE INTO entries ...
InsertOrIgnore(tbl, row) ==
    IF HasId(tbl, row.id) THEN tbl ELSE Append(tbl, EntryRow(row))

\* INSERT INTO fts(rowid, text_tok, reading_tok) VALUES (?,?,?)
FtsInsert(idx, rid, text_tok, reading_tok) ==
    Append(idx, [rowid |-> rid, text_tok |-> text_tok, reading_tok |-> reading_tok])

\* insert_entry of build_index.py, as the pair <<entries, fts>> it leaves
insert_entry(tbl, idx, row) ==
    LET tbl2 == InsertOrIgnore(tbl, row)
        rid  == RowidOf(tbl2, row.id)
        text == jp_clean(row.text)
    IN  <<tbl2,
          FtsInsert(idx, rid, JoinSpace(tokenize_surface(text)),
                    JoinSpace(bi_tokenize_reading_kana(text)))>>

RECURSIVE InsertAllOrIgnore(_, _)
InsertAllOrIgnore(tbl, batch) ==
    IF batch = <<>> THEN tbl
    ELSE InsertAllOrIgnore(InsertOrIgnore(tbl, Head(batch)), Tail(batch))

RECURSIVE FtsInsertBatch(_, _, _)
FtsInsertBatch(tbl, idx, batch) ==
    IF batch = <<>> THEN idx
    ELSE LET e == Head(batch)
         IN  IF ~HasId(tbl, e.id) THEN FtsInsertBatch(tbl, idx, Tail(batch))
             ELSE LET text == jp_clean(e.text)
                  IN  FtsInsertBatch(tbl,
                        FtsInsert(idx, RowidOf(tbl, e.id),
                                  JoinSpace(tokenize_surface(text)),
                                  JoinSpace(ig_tokenize_reading_kana(text))),
                        Tail(batch))

\* insert_batch of indexer_gui.py, as the pair <<entries, fts>> it leaves
insert_batch(tbl, idx, batch) ==
    LET tbl2 == InsertAllOrIgnore(tbl, batch)
    IN  <<tbl2, FtsInsertBatch(tbl2, idx, batch)>>

----------------------------------------------------------------------------
(* Parsing a subtitle file into entries (indexer_gui.py)                    *)

RECURSIVE EventsToEntries(_, _)
EventsToEntries(path, events) ==
    IF events = <<>> THEN <<>>
    ELSE LET ev   == Head(events)
             text == jp_clean(ev.text)
         IN  (IF text = <<>> THEN <<>>
              ELSE <<[id |-> <<path, ev.start>>, text |-> text,
                      context_prev |-> <<>>, context_next |-> <<>>]>>)
             \o EventsToEntries(path, Tail(events))

WithContext(es) ==
    [i \in DOMAIN es |->
        [es[i] EXCEPT !.context_prev = IF i > 1 THEN es[i - 1].text ELSE <<>>,
                      !.context_next = IF i < Len(es) THEN es[i + 1].text ELSE <<>>]]

parse_subtitle(f) == WithContext(EventsToEntries(f.path, f.events))

CleanItems(items) ==
    [i \in DOMAIN items |->
        [items[i] EXCEPT !.text = jp_clean(items[i].text),
                         !.context_prev = jp_clean(items[i].context_prev),
                         !.context_next = jp_clean(items[i].context_next)]]

----------------------------------------------------------------------------
(* Specification of ingest: JSONL lines through build() and subtitle files  *)
(* through the indexer worker, in any order, into one database.             *)

MaxIngest == 2

IngestTexts == { <<"K", "a">>, <<"L", " ", "a">>, <<"L">> }
IngestIds   == { <<"f1", 0>>, <<"f2", 0>> }
IngestLines ==
    [id : IngestIds, text : IngestTexts,
     context_prev : {<<>>, <<"L", "a">>}, context_next : {<<>>}]
IngestEvents == [start : {0, 1000}, text : IngestTexts]
IngestFiles  == [path : {"f1"}, events : SeqsUpTo(IngestEvents, 2)]

InitIngest ==
    /\ NzIdle
    /\ DbEmpty
    /\ HlIdle
    /\ QIdle
    /\ XIdle

\* one line of the JSONL file in build(): clean, drop a blank text, insert
BuildLine(obj) ==
    /\ n_ops < MaxIngest
    /\ LET row == [obj EXCEPT !.text = jp_clean(obj.text),
                              !.context_prev = jp_clean(obj.context_prev),
                              !.context_next = jp_clean(obj.context_next)]
       IN  IF row.text = <<>>
           THEN UNCHANGED <<entries, fts, ingested>>
           ELSE LET r == insert_entry(entries, fts, row)
                IN  /\ entries' = r[1]
                    /\ fts' = r[2]
                    /\ ingested' = ingested \cup {row.id}
    /\ n_ops' = n_ops + 1
    /\ UNCHANGED <<nzvars, hlvars, qvars, xvars>>

\* one file of the worker's loop in IndexerWorker.run: parse, clean, insert
IndexFile(f) ==
    /\ n_ops < MaxIngest
    /\ LET items == parse_subtitle(f)
       IN  IF items = <<>>
           THEN UNCHANGED <<entries, fts, ingested>>
           ELSE LET batch == CleanItems(items)
                    r == insert_batch(entries, fts, batch)
                IN  /\ entries' = r[1]
                    /\ fts' = r[2]
                    /\ ingested' = ingested \cup {batch[i].id : i \in DOMAIN batch}
    /\ n_ops' = n_ops + 1
    /\ UNCHANGED <<nzvars, hlvars, qvars, xvars>>

NextIngest ==
    \/ \E obj \in IngestLines : BuildLine(obj)
    \/ \E f \in IngestFiles : IndexFile(f)

SpecIngest == InitIngest /\ [][NextIngest]_vars

RowsWithId(id) == {i \in DOMAIN entries : entries[i].id = id}
FtsOfRow(r) == {i \in DOMAIN fts : fts[i].rowid = r}

\* C1: every id that was ingested, once or several times, is the id of
\* exactly one row of entries.
C1_OneEntryPerId == \A id \in ingested : Cardinality(RowsWithId(id)) = 1

\* an id has been ingested twice: one row, two index writes for it
C1_Witness ==
    \E r \in DOMAIN entries : Cardinality(FtsOfRow(r)) >= 2

\* C2: after any ingests, each row of entries has exactly one index record,
\* and its token fields are the ones derived from the row's stored text
\* (so the second ingest of an id changed nothing).
C2_ReingestIsNoOp ==
    \A r \in DOMAIN entries :
        /\ Cardinality(FtsOfRow(r)) = 1
        /\ \A i \in FtsOfRow(r) :
              LET text == jp_clean(entries[r].text)
              IN  /\ fts[i].text_tok = JoinSpace(tokenize_surface(text))
                  /\ fts[i].reading_tok = JoinSpace(bi_tokenize_reading_kana(text))

NoControls(text) == \A i \in DOMAIN text : text[i] \notin BIDI_CTRL

\* C4: jp_clean's output holds no bidi control character, whatever the input,
\* and neither does any text column of a stored entry.
C4_NoControls ==
    /\ \A x \in SeqsUpTo(RawChars, MaxRawLen) : NoControls(jp_clean(x))
    /\ \A r \in DOMAIN entries :
          /\ NoControls(entries[r].text)
          /\ NoControls(entries[r].context_prev)
          /\ NoControls(entries[r].context_next)

\* an entry whose raw text and raw context both held a control character
C4_Witness ==
    \E r \in DOMAIN entries :
        /\ entries[r].text = <<" ", "a">>
        /\ entries[r].context_prev = <<"a">>

----------------------------------------------------------------------------
(* Highlighter (app_ui.py)                                                  *)

\* text.find(p, start): the first offset >= start where p occurs, or -1
find(text, p, start) ==
    LET hits == {i \in start .. (Len(text) - Len(p)) : Slice(text, i, i + Len(p)) = p}
    IN  IF hits = {} THEN -1 ELSE CHOOSE i \in hits : \A j \in hits : i <= j

RECURSIVE Occurrences(_, _, _)
Occurrences(text, p, start) ==
    LET i == find(text, p, start)
    IN  IF i = -1 THEN <<>>
        ELSE <<[s |-> i, e |-> i + Len(p)]>> \o Occurrences(text, p, i + Len(p))

RECURSIVE AllOccurrences(_, _)
AllOccurrences(text, phrases) ==
    IF phrases = <<>> THEN <<>>
    ELSE (IF Head(phrases) = <<>> THEN <<>> ELSE Occurrences(text, Head(phrases), 0))
         \o AllOccurrences(text, Tail(phrases))

\* list.sort(): stable, ascending by key(x); Before(x, y) is key(x) < key(y)
RangeBefore(x, y) == x.s < y.s \/ (x.s = y.s /\ x.e < y.e)

RECURSIVE InsertRange(_, _)
InsertRange(sorted, x) ==
    IF sorted = <<>> THEN <<x>>
    ELSE IF RangeBefore(x, Head(sorted)) THEN <<x>> \o sorted
    ELSE <<Head(sorted)>> \o InsertRange(Tail(sorted), x)

RECURSIVE SortRanges(_)
SortRanges(rs) ==
    IF rs = <<>> THEN <<>>
    ELSE InsertRange(SortRanges(SubSeq(rs, 1, Len(rs) - 1)), rs[Len(rs)])

Max(a, b) == IF a >= b THEN a ELSE b

RECURSIVE MergeRanges(_, _)
MergeRanges(merged, rs) ==
    IF rs = <<>> THEN merged
    ELSE LET r == Head(rs)
             n == Len(merged)
         IN  IF n = 0 \/ r.s > merged[n].e
             THEN MergeRanges(Append(merged, r), Tail(rs))
             ELSE MergeRanges([merged EXCEPT ![n].e = Max(merged[n].e, r.e)], Tail(rs))

find_phrase_ranges(text, phrases) ==
    MergeRanges(<<>>, SortRanges(AllOccurrences(text, phrases)))

\* one pass of subtract_intervals' outer loop: the segments minus the range b
RECURSIVE SubtractOne(_, _)
SubtractOne(segments, b) ==
    IF segments = <<>> THEN <<>>
    ELSE LET x == Head(segments).s
             y == Head(segments).e
         IN  (IF b.e <= x \/ b.s >= y
              THEN <<[s |-> x, e |-> y]>>
              ELSE (IF x < b.s THEN <<[s |-> x, e |-> b.s]>> ELSE <<>>)
                   \o (IF b.e < y THEN <<[s |-> b.e, e |-> y]>> ELSE <<>>))
             \o SubtractOne(Tail(segments), b)

SubtractFirst(segments, bs) ==
    IF bs = <<>> THEN segments ELSE SubtractOne(segments, Head(bs))

\* the outer loop of subtract_intervals, with its break on no segment left
RECURSIVE SubtractAll(_, _)
SubtractAll(segments, bs) ==
    IF bs = <<>> \/ segments = <<>> THEN segments
    ELSE SubtractAll(SubtractOne(segments, Head(bs)), Tail(bs))

subtract_none(a, bs) == IF a.e > a.s THEN <<a>> ELSE <<>>

subtract_intervals(a, bs) ==
    SelectSeq(SubtractAll(<<a>>, bs), LAMBDA r : r.e > r.s)

TokenMatchesEitherSet(m, surf_qset, read_qset) ==
    m.surface \in surf_qset \/ ReadingOrSurface(m) \in (surf_qset \cup read_qset)

\* the query matches the morpheme m
TokenMatches(m, surf_qset, read_qset) ==
    m.surface \in surf_qset \/ ReadingOrSurface(m) \in read_qset

RECURSIVE TokenRanges(_, _, _, _)
TokenRanges(ms, phrase_ranges, surf_qset, read_qset) ==
    IF ms = <<>> THEN <<>>
    ELSE (IF TokenMatches(Head(ms), surf_qset, read_qset)
          THEN subtract_intervals([s |-> Head(ms).begin, e |-> Head(ms).end],
                                  phrase_ranges)
          ELSE <<>>)
         \o TokenRanges(Tail(ms), phrase_ranges, surf_qset, read_qset)

Labeled(rs, t) == [i \in DOMAIN rs |-> [s |-> rs[i].s, e |-> rs[i].e, t |-> t]]

\* key (start, label != "phrase")
LabeledBefore(x, y) ==
    x.s < y.s \/ (x.s = y.s /\ x.t = "phrase" /\ y.t # "phrase")

RECURSIVE InsertLabeled(_, _)
InsertLabeled(sorted, x) ==
    IF sorted = <<>> THEN <<x>>
    ELSE IF LabeledBefore(x, Head(sorted)) THEN <<x>> \o sorted
    ELSE <<Head(sorted)>> \o InsertLabeled(Tail(sorted), x)

RECURSIVE SortLabeled(_)
SortLabeled(ls) ==
    IF ls = <<>> THEN <<>>
    ELSE InsertLabeled(SortLabeled(SubSeq(ls, 1, Len(ls) - 1)), ls[Len(ls)])

Overlaps(s1, e1, s2, e2) == ~(e1 <= s2 \/ s1 >= e2)

\* the loop that builds `out` from the sorted labeled ranges
RECURSIVE Resolve(_, _)
Resolve(out, ls) ==
    IF ls = <<>> THEN out
    ELSE LET x == Head(ls)
             n == Len(out)
         IN  IF x.t = "token"
                /\ \E i \in DOMAIN out :
                      out[i].t = "phrase" /\ Overlaps(x.s, x.e, out[i].s, out[i].e)
             THEN Resolve(out, Tail(ls))
             ELSE IF n > 0 /\ out[n].t = x.t /\ x.s <= out[n].e
             THEN Resolve([out EXCEPT ![n].e = Max(out[n].e, x.e)], Tail(ls))
             ELSE Resolve(Append(out, x), Tail(ls))

\* the spans build_highlight_html wraps in a style
highlight_spans(text, phrases, surf_qset, read_qset) ==
    IF text = <<>> THEN <<>>
    ELSE LET phrase_ranges == find_phrase_ranges(text, phrases)
             token_ranges  == TokenRanges(tokenize(text), phrase_ranges,
                                          surf_qset, read_qset)
         IN  Resolve(<<>>, SortLabeled(Labeled(phrase_ranges, "phrase")
                                       \o Labeled(token_ranges, "token")))

\* html.escape of one character
EscapeChar(c) == IF c = "q" THEN <<"&quot;">> ELSE <<c>>

RECURSIVE html_escape(_)
html_escape(s) == IF s = <<>> THEN <<>> ELSE EscapeChar(Head(s)) \o html_escape(Tail(s))

\* the rendering loop: the pieces of the html, each a style ("" for literal
\* text) and the escaped segment it wraps
RECURSIVE Render(_, _, _)
Render(text, out, cur) ==
    IF out = <<>>
    THEN IF cur < Len(text)
         THEN <<[style |-> "", seg |-> html_escape(Slice(text, cur, Len(text)))]>>
         ELSE <<>>
    ELSE LET x == Head(out)
         IN  (IF cur < x.s
              THEN <<[style |-> "", seg |-> html_escape(Slice(text, cur, x.s))]>>
              ELSE <<>>)
             \o <<[style |-> x.t, seg |-> html_escape(Slice(text, x.s, x.e))]>>
             \o Render(text, Tail(out), x.e)

build_highlight_html(text, phrases, surf_qset, read_qset) ==
    Render(text, highlight_spans(text, phrases, surf_qset, read_qset), 0)

----------------------------------------------------------------------------
(* Specification of the highlighter: any text, phrase list and query token  *)
(* sets, highlighted once.                                                  *)

MaxTextLen == 3
MaxPhrases == 2

HlChars   == {"a", "K"}
HlPhrases == SeqsUpTo(HlChars, 2)
HlSurfs   == { <<"a">>, <<"K", "a">>, <<"K", "a", "K">> }
HlReads   == { <<"a">> }

InitHighlight ==
    /\ NzIdle
    /\ DbEmpty
    /\ XIdle
    /\ hl_pc = "ready"
    /\ hl_text \in SeqsUpTo(HlChars, MaxTextLen)
    /\ hl_phrases \in SeqsUpTo(HlPhrases, MaxPhrases)
    /\ hl_surf \in SUBSET HlSurfs
    /\ hl_read \in SUBSET HlReads
    /\ hl_out = <<>>
    /\ hl_html = <<>>
    /\ QIdle

Highlight ==
    /\ hl_pc = "ready"
    /\ hl_out' = highlight_spans(hl_text, hl_phrases, hl_surf, hl_read)
    /\ hl_html' = build_highlight_html(hl_text, hl_phrases, hl_surf, hl_read)
    /\ hl_pc' = "done"
    /\ UNCHANGED <<hl_text, hl_phrases, hl_surf, hl_read, nzvars, dbvars, qvars, xvars>>

NextHighlight == Highlight

SpecHighlight == InitHighlight /\ [][NextHighlight]_vars

\* position k of hl_text lies inside a literal occurrence of a phrase
InPhraseOccurrence(k) ==
    \E i \in DOMAIN hl_phrases :
        LET p == hl_phrases[i]
        IN  /\ p # <<>>
            /\ \E s \in 0 .. k :
                  /\ k < s + Len(p)
                  /\ s + Len(p) <= Len(hl_text)
                  /\ Slice(hl_text, s, s + Len(p)) = p

\* the morphemes of hl_text that the query token sets select
MatchingTokens ==
    LET ms == tokenize(hl_text)
    IN  {ms[i] : i \in {j \in DOMAIN ms :
                          \/ ms[j].surface \in hl_surf
                          \/ (IF ms[j].reading_form = <<>> THEN ms[j].surface
                              ELSE ms[j].reading_form) \in hl_read}}

InMatchingToken(k) == \E m \in MatchingTokens : m.begin <= k /\ k < m.end

\* C5: the emitted spans are ordered, lie within the text, are non-empty,
\* do not overlap, and cover only phrase occurrences and matching tokens.
C5_Coverage ==
    hl_pc = "done" =>
        /\ \A i \in DOMAIN hl_out :
              /\ 0 <= hl_out[i].s
              /\ hl_out[i].s < hl_out[i].e
              /\ hl_out[i].e <= Len(hl_text)
              /\ \A k \in hl_out[i].s .. (hl_out[i].e - 1) :
                    InPhraseOccurrence(k) \/ InMatchingToken(k)
        /\ \A i \in DOMAIN hl_out : \A j \in DOMAIN hl_out :
              i < j => hl_out[i].e <= hl_out[j].s

\* phrase and token spans next to each other, both kinds emitted
C5_Witness ==
    /\ hl_pc = "done"
    /\ \E i \in DOMAIN hl_out : hl_out[i].t = "phrase"
    /\ \E i \in DOMAIN hl_out : hl_out[i].t = "token"
    /\ Len(hl_out) >= 3

\* position k is covered by an emitted span with label t
Covered(k, t) ==
    \E i \in DOMAIN hl_out : hl_out[i].t = t /\ hl_out[i].s <= k /\ k < hl_out[i].e

\* C6: no token span overlaps a phrase span (so a matching token inside a
\* phrase span has no token span of its own), and every position of a
\* matching token that no phrase span covers is under a token span.
C6_PhrasePrecedence ==
    hl_pc = "done" =>
        /\ \A i \in DOMAIN hl_out : \A j \in DOMAIN hl_out :
              (hl_out[i].t = "token" /\ hl_out[j].t = "phrase")
                  => (hl_out[i].e <= hl_out[j].s \/ hl_out[j].e <= hl_out[i].s)
        /\ \A k \in 0 .. (Len(hl_text) - 1) :
              (InMatchingToken(k) /\ ~Covered(k, "phrase")) => Covered(k, "token")

\* a matching token with a phrase strictly inside it: both remainders emitted
C6_Witness ==
    /\ hl_pc = "done"
    /\ hl_text = <<"K", "a", "K">>
    /\ hl_out = << [s |-> 0, e |-> 1, t |-> "token"],
                   [s |-> 1, e |-> 2, t |-> "phrase"],
                   [s |-> 2, e |-> 3, t |-> "token"] >>

----------------------------------------------------------------------------
(* Query compiler (app_ui.py, search.py)                                    *)

\* tokenize_reading of app_ui.py and search.py
tokenize_reading(q) ==
    LET ms == tokenize(q)
    IN  StripNonEmpty([i \in DOMAIN ms |-> ReadingOrSurface(ms[i])])

\* t.replace('"', '').replace("'", "")
StripQuotes(t) == SelectSeq(t, LAMBDA c : c # "q")

\* " AND ".join(f'{col}:{t}' for t in tokens), as the clauses it joins
Clauses(col, tokens) ==
    [i \in DOMAIN tokens |-> [col |-> col, term |-> StripQuotes(tokens[i])]]

build_match_query_both(query) ==
    [kind |-> "expr",
     groups |-> <<Clauses("text_tok", tokenize_surface(query)),
                  Clauses("reading_tok", tokenize_reading(query))>>]

\* build_match_query: None, or the expression as its OR-ed groups of AND-ed
\* column-qualified terms
build_match_query(query) ==
    LET s_tokens == tokenize_surface(query)
        r_tokens == tokenize_reading(query)
        parts == (IF s_tokens # <<>> THEN <<Clauses("text_tok", s_tokens)>> ELSE <<>>)
                 \o (IF r_tokens # <<>> THEN <<Clauses("reading_tok", r_tokens)>>
                     ELSE <<>>)
    IN  IF parts = <<>> THEN NoExpr ELSE [kind |-> "expr", groups |-> parts]

\* the phrases QUOTE_RE finds in query from offset i on: "..." and the corner
\* brackets; a quoted span holds at least one character and not its closer
RECURSIVE QuotedFrom(_, _)
QuotedFrom(query, i) ==
    IF i >= Len(query) THEN <<>>
    ELSE LET c == query[i + 1]
             closer == IF c = "q" THEN "q" ELSE "]"
             ends == {j \in (i + 1) .. (Len(query) - 1) : query[j + 1] = closer}
             j == IF ends = {} THEN -1 ELSE CHOOSE x \in ends : \A y \in ends : x <= y
         IN  IF c \in {"q", "["} /\ j > i + 1
             THEN <<Strip(Slice(query, i + 1, j))>> \o QuotedFrom(query, j + 1)
             ELSE QuotedFrom(query, i + 1)

\* parse_query: the phrases and the two token sets
parse_query(query) ==
    [phrases  |-> QuotedFrom(query, 0),
     surf_set |-> {tokenize_surface(query)[i] : i \in DOMAIN tokenize_surface(query)},
     read_set |-> {tokenize_reading(query)[i] : i \in DOMAIN tokenize_reading(query)}]

----------------------------------------------------------------------------
(* Storage engine: the FTS5 MATCH query of query_hits                       *)

\* the characters the FTS5 tokenizer keeps; every other one separates tokens
FtsTokenChars == {"a", "K", "c"}

\* the tokens the FTS5 tokenizer makes of a string
RECURSIVE FtsTokensFrom(_, _)
FtsTokensFrom(str, cur) ==
    IF str = <<>> THEN (IF cur = <<>> THEN <<>> ELSE <<cur>>)
    ELSE IF Head(str) \in FtsTokenChars
         THEN FtsTokensFrom(Tail(str), Append(cur, Head(str)))
         ELSE (IF cur = <<>> THEN <<>> ELSE <<cur>>) \o FtsTokensFrom(Tail(str), <<>>)

FtsTokens(str) == FtsTokensFrom(str, <<>>)

IsInfix(xs, ys) ==
    \E i \in 0 .. (Len(ys) - Len(xs)) : SubSeq(ys, i + 1, i + Len(xs)) = xs

\* column-qualified term c against row r: some index record of the row holds
\* the term's tokens, adjacent and in order; a term without tokens matches
\* nothing
ClauseMatches(idx, r, c) ==
    /\ FtsTokens(c.term) # <<>>
    /\ \E i \in DOMAIN idx :
          /\ idx[i].rowid = r
          /\ IsInfix(FtsTokens(c.term), FtsTokens(idx[i][c.col]))

ExprMatches(idx, r, expr) ==
    \E g \in DOMAIN expr.groups :
        \A k \in DOMAIN expr.groups[g] : ClauseMatches(idx, r, expr.groups[g][k])

\* an empty bareword is a syntax error of the match expression
SyntaxOk(expr) ==
    \A g \in DOMAIN expr.groups :
        \A k \in DOMAIN expr.groups[g] : expr.groups[g][k].term # <<>>

\* the rowids of S in ascending order of Key, ties by rowid
RECURSIVE OrderBy(_, _)
OrderBy(S, Key) ==
    IF S = {} THEN <<>>
    ELSE LET r == CHOOSE x \in S :
                    \A y \in S : Key[x] < Key[y] \/ (Key[x] = Key[y] /\ x <= y)
         IN  <<r>> \o OrderBy(S \ {r}, Key)

\* bm25 of a one-group match, as far as the order goes: a row with fewer
\* indexed tokens scores better
Bm25Key(idx) ==
    [r \in {idx[i].rowid : i \in DOMAIN idx} |->
        LET i == CHOOSE j \in DOMAIN idx : idx[j].rowid = r
        IN  Len(FtsTokens(idx[i].text_tok))]

RowidKey(idx) == [r \in {idx[i].rowid : i \in DOMAIN idx} |-> 0]

Take(xs, n) == SubSeq(xs, 1, IF Len(xs) < n THEN Len(xs) ELSE n)

\* the row SELECT e.title, ..., e.text, e.source_path returns for rowid r
HitRow(tbl, r) == [id |-> tbl[r].id, text |-> tbl[r].text]

\* cur.execute(sql, [match_expr, limit]).fetchall(): an error, or the rows
Execute(tbl, idx, engine, expr, limit, ordered) ==
    IF engine = "no_fts" THEN [err |-> "no such table: fts", rows |-> <<>>]
    ELSE IF ordered /\ engine = "no_bm25"
         THEN [err |-> "no such function: bm25", rows |-> <<>>]
    ELSE IF ~SyntaxOk(expr) THEN [err |-> "fts5: syntax error", rows |-> <<>>]
    ELSE LET hits == {r \in DOMAIN tbl : ExprMatches(idx, r, expr)}
             order == OrderBy(hits, IF ordered THEN Bm25Key(idx) ELSE RowidKey(idx))
         IN  [err |-> "",
              rows |-> Take([i \in DOMAIN order |-> HitRow(tbl, order[i])], limit)]

----------------------------------------------------------------------------
(* Retriever (app_ui.py)                                                    *)

\* p in t
Contains(t, p) == IsInfix(p, t)

has_any(txt, phrases) == \E i \in DOMAIN phrases : Contains(txt, phrases[i])

\* has_all of query_hits: all(p in t for p in phrases)
has_all(txt, phrases) == \A i \in DOMAIN phrases : Contains(txt, phrases[i])

\* the tail of query_hits: the phrase filter and the cap
FilterAndCapUncapped(rows, phrases, topn) ==
    IF phrases # <<>> THEN SelectSeq(rows, LAMBDA r : has_all(r.text, phrases))
    ELSE rows

FilterAndCap(rows, phrases, topn) ==
    IF phrases # <<>>
    THEN Take(SelectSeq(rows, LAMBDA r : has_all(r.text, phrases)), topn)
    ELSE Take(rows, topn)

Hits(outcome, expr, execs, cands, rows) ==
    [outcome |-> outcome, expr |-> expr, execs |-> execs, cands |-> cands,
     rows |-> rows]

\* query_hits from the first cur.execute on
RunQuery(tbl, idx, engine, match_expr, phrases, topn) ==
    LET q1 == [limit |-> topn * 5, ordered |-> TRUE]
        q2 == [limit |-> topn * 5, ordered |-> FALSE]
        r1 == Execute(tbl, idx, engine, match_expr, q1.limit, TRUE)
        r2 == Execute(tbl, idx, engine, match_expr, q2.limit, FALSE)
    IN  IF r1.err = ""
        THEN Hits("returned", match_expr, <<q1>>, r1.rows,
                  FilterAndCap(r1.rows, phrases, topn))
        ELSE IF r1.err = "no such table: fts"
        THEN Hits("returned", match_expr, <<q1>>, <<>>, <<>>)
        ELSE IF r1.err = "no such function: bm25"
        THEN IF r2.err = ""
             THEN Hits("returned", match_expr, <<q1, q2>>, r2.rows,
                       FilterAndCap(r2.rows, phrases, topn))
             ELSE Hits("raised", match_expr, <<q1, q2>>, <<>>, <<>>)
        ELSE Hits("raised", match_expr, <<q1>>, <<>>, <<>>)

query_hits_unguarded(tbl, idx, engine, query, phrases, topn) ==
    RunQuery(tbl, idx, engine, build_match_query(query), phrases, topn)

\* query_hits(conn, query, phrases, topn): what it compiled, sent and returned
query_hits(tbl, idx, engine, query, phrases, topn) ==
    LET match_expr == build_match_query(query)
    IN  IF match_expr.kind = "None"
        THEN Hits("returned", match_expr, <<>>, <<>>, <<>>)
        ELSE RunQuery(tbl, idx, engine, match_expr, phrases, topn)

----------------------------------------------------------------------------
(* Specification of the retriever: a database built from the first rows of  *)
(* a corpus (or not built at all), and one call of query_hits on it.        *)

MaxQueryLen == 2
MaxCorpus == 6
MaxTopN == 1

CorpusTexts ==
    << <<"a">>, <<"K">>, <<"a", "K">>, <<"K", " ", "a">>, <<"K", "a">>, <<"K", "x">> >>

CorpusRow(i) ==
    [id |-> <<"f1", i * 1000>>, text |-> CorpusTexts[((i - 1) % Len(CorpusTexts)) + 1],
     context_prev |-> <<>>, context_next |-> <<>>]

\* <<entries, fts>> after build() has ingested the first n rows of the corpus
RECURSIVE Built(_)
Built(n) ==
    IF n = 0 THEN << <<>>, <<>> >>
    ELSE LET db == Built(n - 1) IN insert_entry(db[1], db[2], CorpusRow(n))

PlainQueries == SeqsUpTo({"a", "K", " ", "w", "x"}, MaxQueryLen)
Queries ==
    PlainQueries
    \cup {<<"q">> \o s \o <<"q">> : s \in PlainQueries}
    \cup {<<"[">> \o s \o <<"]">> : s \in PlainQueries}

GivenPhrases == { <<>>, << <<"a">> >>, << <<"K">>, <<"a">> >> }

InitQuery ==
    /\ NzIdle
    /\ HlIdle
    /\ XIdle
    /\ q_pc = "ready"
    /\ q_engine \in {"ok", "no_fts", "no_bm25"}
    /\ \E n \in 0 .. MaxCorpus :
          /\ q_engine = "no_fts" => n = 0
          /\ entries = Built(n)[1]
          /\ fts = Built(n)[2]
          /\ ingested = {entries[i].id : i \in DOMAIN entries}
          /\ n_ops = n
    /\ q_query \in Queries
    /\ q_phrases \in {parse_query(q_query).phrases} \cup GivenPhrases
    /\ q_topn \in 1 .. MaxTopN
    /\ q_expr = NoExpr
    /\ q_execs = <<>>
    /\ q_cands = <<>>
    /\ q_rows = <<>>
    /\ q_outcome = ""
    /\ q_note = NoNote

QueryHits ==
    /\ q_pc = "ready"
    /\ LET h == query_hits(entries, fts, q_engine, q_query, q_phrases, q_topn)
       IN  /\ q_expr' = h.expr
           /\ q_execs' = h.execs
           /\ q_cands' = h.cands
           /\ q_rows' = h.rows
           /\ q_outcome' = h.outcome
    /\ q_pc' = "done"
    /\ UNCHANGED <<q_query, q_phrases, q_topn, q_engine, q_note, nzvars, dbvars, hlvars,
                   xvars>>

\* the result cap do_search passes to query_hits
DO_SEARCH_TOPN == 200

\* the note do_search puts in the status bar: the hit count and the phrases
StatusNote(rows, phrases) == [hits |-> Len(rows), phrases |-> phrases]

\* MainWindow.do_search on the text of the query box: strip it, return on a
\* blank one, parse the phrases, query, show the rows and the note
DoSearch ==
    /\ q_pc = "ready"
    /\ Strip(q_query) # <<>>
    /\ q_phrases = parse_query(Strip(q_query)).phrases
    /\ LET h == query_hits(entries, fts, q_engine, Strip(q_query), q_phrases,
                           DO_SEARCH_TOPN)
       IN  /\ q_expr' = h.expr
           /\ q_execs' = h.execs
           /\ q_cands' = h.cands
           /\ q_rows' = h.rows
           /\ q_outcome' = h.outcome
           /\ q_note' = IF h.outcome = "returned" THEN StatusNote(h.rows, q_phrases)
                        ELSE NoNote
    /\ q_pc' = "shown"
    /\ UNCHANGED <<q_query, q_phrases, q_topn, q_engine, nzvars, dbvars, hlvars, xvars>>

NextQuery == QueryHits \/ DoSearch

SpecQuery == InitQuery /\ [][NextQuery]_vars

QDone == q_pc = "done" /\ q_outcome = "returned"

\* p occurs in t as a run of equal characters
LiteralIn(p, t) ==
    \E s \in 0 .. (Len(t) - Len(p)) : \A k \in 1 .. Len(p) : t[s + k] = p[k]

\* t has the length of p and differs from it at exactly one offset
OneCharOff(t, p) ==
    /\ Len(t) = Len(p)
    /\ Cardinality({k \in 1 .. Len(p) : t[k] # p[k]}) = 1

\* C7: with a non-empty phrase list, every returned row's text contains every
\* phrase literally, and no returned row's text is one character off a phrase.
C7_PhraseFilter ==
    (QDone /\ q_phrases # <<>>) =>
        \A i \in DOMAIN q_rows : \A j \in DOMAIN q_phrases :
            /\ LiteralIn(q_phrases[j], q_rows[i].text)
            /\ ~OneCharOff(q_rows[i].text, q_phrases[j])

\* a candidate one character off the phrase was dropped, another row returned
C7_Witness ==
    /\ QDone
    /\ q_phrases = << <<"a">> >>
    /\ q_rows # <<>>
    /\ \E i \in DOMAIN q_cands : OneCharOff(q_cands[i].text, <<"a">>)

\* the offsets of the candidates that hold every phrase
Passing == {i \in DOMAIN q_cands :
              \A j \in DOMAIN q_phrases : LiteralIn(q_phrases[j], q_cands[i].text)}

\* the offset of the n-th passing candidate
NthPassing(n) == CHOOSE i \in Passing : Cardinality({k \in Passing : k <= i}) = n

MinOf(a, b) == IF a <= b THEN a ELSE b

C9_EmptyQuery ==
    (q_pc = "done" /\ tokenize_surface(q_query) = <<>> /\ tokenize_reading(q_query) = <<>>)
        => /\ q_expr.kind = "None"
           /\ q_outcome = "returned"
           /\ q_rows = <<>>
           /\ q_execs = <<>>

\* a blank query against a built index
C9_Witness ==
    /\ q_pc = "done"
    /\ q_query = <<" ">>
    /\ q_engine = "ok"
    /\ Len(entries) > 0
    /\ q_execs = <<>>

\* C10: a query with surface tokens and no reading token compiles to an
\* expression without a reading_tok clause; with one surface token t it is
\* the single group (no OR) of the single clause text_tok:t.
C10_SurfaceOnly ==
    (q_pc = "done" /\ tokenize_surface(q_query) # <<>> /\ tokenize_reading(q_query) = <<>>)
        => /\ q_expr.kind = "expr"
           /\ \A g \in DOMAIN q_expr.groups : \A k \in DOMAIN q_expr.groups[g] :
                 q_expr.groups[g][k].col # "reading_tok"
           /\ Len(tokenize_surface(q_query)) = 1 =>
                 q_expr.groups =
                     << <<[col |-> "text_tok", term |-> tokenize_surface(q_query)[1]]>> >>

\* the query of one symbol that has a surface and a blank reading
C10_Witness ==
    /\ q_pc = "done"
    /\ q_query = <<"w">>
    /\ q_expr = [kind |-> "expr",
                 groups |-> << <<[col |-> "text_tok", term |-> <<"w">>]>> >>]

----------------------------------------------------------------------------
(* Index absent, and what the match expression admits                       *)

\* what do_search shows for the same search on a built store that holds no
\* matching row: a genuine empty match
EmptyMatchNote ==
    StatusNote(query_hits(<<>>, <<>>, "ok", Strip(q_query), q_phrases,
                          DO_SEARCH_TOPN).rows, q_phrases)

\* C14: with no fts table a search returns no row and does not raise, and
\* what it reports differs from what a genuine empty match reports.
C14_IndexAbsent ==
    (q_pc = "shown" /\ q_engine = "no_fts") =>
        /\ q_outcome = "returned"
        /\ q_rows = <<>>
        /\ q_note # EmptyMatchNote

\* every token of qs is among the tokens ts
AllAmong(qs, ts) == \A i \in DOMAIN qs : \E j \in DOMAIN ts : ts[j] = qs[i]

\* row r holds every surface token of the query in its surface field, or
\* every reading token of the query in its reading field (a field the query
\* has no token for admits nothing)
HoldsQueryTokens(r) ==
    \/ /\ tokenize_surface(q_query) # <<>>
       /\ AllAmong(tokenize_surface(q_query),
                   tokenize_surface(jp_clean(entries[r].text)))
    \/ /\ tokenize_reading(q_query) # <<>>
       /\ AllAmong(tokenize_reading(q_query),
                   bi_tokenize_reading_kana(jp_clean(entries[r].text)))

\* C20: the expression is the OR of the AND of text_tok:t over the surface
\* tokens and the AND of reading_tok:r over the reading tokens, a group
\* without tokens left out; and a row is admitted iff it holds every surface
\* token of the query in its surface field or every reading token in its
\* reading field (stated where the limit did not cut the candidates).
C20_MatchExpression ==
    (q_pc = "done" /\ q_outcome = "returned" /\ q_expr.kind = "expr"
        /\ q_engine = "ok" /\ Len(q_cands) < 5 * q_topn) =>
        /\ Len(q_expr.groups) <= 2
        /\ q_expr.groups =
              (IF tokenize_surface(q_query) = <<>> THEN <<>>
               ELSE <<Clauses("text_tok", tokenize_surface(q_query))>>)
              \o (IF tokenize_reading(q_query) = <<>> THEN <<>>
                  ELSE <<Clauses("reading_tok", tokenize_reading(q_query))>>)
        /\ \A r \in DOMAIN entries :
              (\E i \in DOMAIN q_cands : q_cands[i].id = entries[r].id)
                  <=> HoldsQueryTokens(r)

----------------------------------------------------------------------------
(* Lyric files: parse_lrc (indexer_gui.py, parse_media.py).  A line is its  *)
(* timestamp tags, in order, and the rest of the line; a tag is the digit   *)
(* strings the three groups of time_tag capture (no third group: <<>>).     *)

\* the most digits time_tag takes for the fraction: (\d{1,3})
LRC_FRAC_DIGITS == 3

\* end_ms = start_ms + 3000
LRC_DEFAULT_MS == 3000

\* int() of a digit string
RECURSIVE DigitsToInt(_)
DigitsToInt(ds) ==
    IF ds = <<>> THEN 0
    ELSE 10 * DigitsToInt(SubSeq(ds, 1, Len(ds) - 1)) + ds[Len(ds)]

FracToMsUnpadded(frac) == DigitsToInt(frac)

\* ms = 0 without a fraction, else int((frac + "00")[:3])
FracToMs(frac) ==
    IF frac = <<>> THEN 0
    ELSE DigitsToInt(SubSeq(frac \o <<0, 0>>, 1, 3))

\* start_ms = (mm * 60 + ss) * 1000 + ms
TagStartMs(tag) ==
    (DigitsToInt(tag.mm) * 60 + DigitsToInt(tag.ss)) * 1000 + FracToMs(tag.frac)

\* the entries of one line: none for a line without text, else one per tag
LineEntries(path, line) ==
    LET text == jp_clean(Strip(line.text))
    IN  IF line.tags = <<>> \/ text = <<>> THEN <<>>
        ELSE [i \in DOMAIN line.tags |->
                [id |-> <<path, TagStartMs(line.tags[i])>>,
                 text |-> text,
                 start_ms |-> TagStartMs(line.tags[i]),
                 end_ms |-> TagStartMs(line.tags[i]) + LRC_DEFAULT_MS,
                 context_prev |-> <<>>, context_next |-> <<>>]]

RECURSIVE AllLineEntries(_, _)
AllLineEntries(path, lines) ==
    IF lines = <<>> THEN <<>>
    ELSE LineEntries(path, Head(lines)) \o AllLineEntries(path, Tail(lines))

\* entries.sort(key=start_ms): stable
RECURSIVE InsertByStart(_, _)
InsertByStart(e, sorted) ==
    IF sorted = <<>> THEN <<e>>
    ELSE IF e.start_ms < Head(sorted).start_ms THEN <<e>> \o sorted
    ELSE <<Head(sorted)>> \o InsertByStart(e, Tail(sorted))

RECURSIVE SortByStart(_)
SortByStart(es) ==
    IF es = <<>> THEN <<>>
    ELSE InsertByStart(es[Len(es)], SortByStart(SubSeq(es, 1, Len(es) - 1)))

\* parse_lrc(path), given the lines of the file
parse_lrc(path, lines) == WithContext(SortByStart(AllLineEntries(path, lines)))

----------------------------------------------------------------------------
(* Specification of the lyric parser: one file of one line with up to       *)
(* MaxTags tags, followed or not by a second line, parsed once.             *)

MaxTags == 2

LrcFracs == SeqsUpTo({0, 5}, LRC_FRAC_DIGITS)
LrcTags  == [mm : {<<0, 1>>, <<2>>}, ss : {<<0, 2>>}, frac : LrcFracs]
LrcLines == [tags : SeqsUpTo(LrcTags, MaxTags), text : {<<"K", "a">>, <<" ", "L">>}]
LrcSecondLine ==
    [tags |-> <<[mm |-> <<1>>, ss |-> <<5, 9>>, frac |-> <<>>]>>, text |-> <<"a", " ">>]

InitLrc ==
    /\ NzIdle /\ DbEmpty /\ HlIdle /\ QIdle
    /\ SnIdle /\ PlIdle /\ WkIdle /\ PIdle
    /\ lrc_pc = "ready"
    /\ \E l \in LrcLines : lrc_file \in {<<l>>, <<l, LrcSecondLine>>}
    /\ lrc_out = <<>>

ParseLrc ==
    /\ lrc_pc = "ready"
    /\ lrc_out' = parse_lrc("s1.lrc", lrc_file)
    /\ lrc_pc' = "done"
    /\ UNCHANGED <<lrc_file, nzvars, dbvars, hlvars, qvars, snvars, plvars, wkvars, pvars>>

NextLrc == ParseLrc

SpecLrc == InitLrc /\ [][NextLrc]_vars

\* the fraction of a tag in milliseconds: its digits are tenths, hundredths
\* and thousandths of a second
FractionMs(frac) ==
    (IF Len(frac) >= 1 THEN frac[1] * 100 ELSE 0)
    + (IF Len(frac) >= 2 THEN frac[2] * 10 ELSE 0)
    + (IF Len(frac) >= 3 THEN frac[3] ELSE 0)

\* the decimal value of one or two digits
Decimal(ds) == IF Len(ds) = 1 THEN ds[1] ELSE ds[1] * 10 + ds[2]

\* the start a tag stands for
TagMs(tag) == (Decimal(tag.mm) * 60 + Decimal(tag.ss)) * 1000 + FractionMs(tag.frac)

\* the <<line, tag>> positions of the file whose line has a text
LyricTags ==
    {<<l, t>> \in (DOMAIN lrc_file) \X (1 .. MaxTags + 1) :
        /\ t \in DOMAIN lrc_file[l].tags
        /\ jp_clean(Strip(lrc_file[l].text)) # <<>>}

\* C17: every tag of a line with lyric text makes one entry, with
\* start_ms = (mm*60 + ss)*1000 + the fraction in milliseconds and
\* end_ms = start_ms + 3000: as many entries as tags, in start order, and
\* for each start and text as many entries as tags that stand for them.
C17_LrcTimestamps ==
    lrc_pc = "done" =>
        /\ Len(lrc_out) = Cardinality(LyricTags)
        /\ \A i \in DOMAIN lrc_out : lrc_out[i].end_ms = lrc_out[i].start_ms + 3000
        /\ \A i \in DOMAIN lrc_out : \A j \in DOMAIN lrc_out :
              i < j => lrc_out[i].start_ms <= lrc_out[j].start_ms
        /\ \A p \in LyricTags :
              LET ms == TagMs(lrc_file[p[1]].tags[p[2]])
                  tx == jp_clean(Strip(lrc_file[p[1]].text))
              IN  Cardinality({i \in DOMAIN lrc_out :
                                  lrc_out[i].start_ms = ms /\ lrc_out[i].text = tx})
                  = Cardinality({r \in LyricTags :
                                  /\ TagMs(lrc_file[r[1]].tags[r[2]]) = ms
                                  /\ jp_clean(Strip(lrc_file[r[1]].text)) = tx})

\* the line [01:02.50] with a lyric: one entry, 62500 to 65500
C17_Witness ==
    /\ lrc_pc = "done"
    /\ lrc_file = << [tags |-> <<[mm |-> <<0, 1>>, ss |-> <<0, 2>>, frac |-> <<5, 0>>]>>,
                      text |-> <<"K", "a">>] >>
    /\ Len(lrc_out) = 1
    /\ lrc_out[1].start_ms = 62500
    /\ lrc_out[1].end_ms = 65500
    /\ lrc_out[1].text = <<"K", "a">>

----------------------------------------------------------------------------
(* Snippet cache: make_snippet (app_ui.py).  A file of the cache directory  *)
(* is its size in bytes (-1: no file) and, for the properties, whether the  *)
(* transcoder run that wrote it ended well ("ok") or not ("failed").        *)

\* pad_ms=400
PAD_MS == 400

\* out.stat().st_size > 1024
CACHE_MIN_SIZE == 1024

\* key = f"{media}|{start_ms}|{end_ms}|{pad_ms}"
CacheKey(media, start_ms, end_ms, pad_ms) == <<media, start_ms, end_ms, pad_ms>>

\* out = CACHE_DIR / (md5(key).hexdigest() + ".mp3"): one name per key
CacheName(key) == [md5 |-> key]

CacheHitNever(file) == FALSE

CacheHitAnyFile(file) == file.size >= 0

\* out.exists() and out.stat().st_size > 1024
CacheHit(file) == file.size >= 0 /\ file.size > CACHE_MIN_SIZE

\* ss = max(0, start_ms - pad_ms)
WindowStart(start_ms, pad_ms) == Max(0, start_ms - pad_ms)

\* dur = max(1, (end_ms - start_ms) + 2 * pad_ms)
WindowDuration(start_ms, end_ms, pad_ms) == Max(1, (end_ms - start_ms) + 2 * pad_ms)

\* the file at the output path after the transcoder ran: what it wrote, or
\* the file that was there if it wrote nothing
AfterTranscoder(pre, tr) ==
    IF tr.wrote < 0 THEN pre
    ELSE [size |-> tr.wrote, by |-> IF tr.exit = 0 THEN "ok" ELSE "failed"]

\* subprocess.run(args, check=True) and the return after it: raises on a
\* spawn error or a non-zero exit, else out if out.exists() else None
AfterRun(spawned, tr, file) ==
    IF ~spawned \/ tr.exit # 0 THEN "raise"
    ELSE IF file.size >= 0 THEN "out" ELSE "None"

ExceptReraise(res) == res

\* except Exception: return None
ExceptReturnNone(res) == IF res = "raise" THEN "None" ELSE res

\* make_snippet(ffmpeg_exe, media, start_ms, end_ms, pad_ms) on the cache
\* directory files; spawned: the transcoder process could be started;
\* tr: its exit code and the size it wrote (-1: nothing).  Gives the files
\* afterwards and the record of the call.
make_snippet(files, media, start_ms, end_ms, pad_ms, spawned, tr) ==
    LET key == CacheKey(media, start_ms, end_ms, pad_ms)
        out == CacheName(key)
        pre == files[out]
        ss  == WindowStart(start_ms, pad_ms)
        dur == WindowDuration(start_ms, end_ms, pad_ms)
        post == IF spawned THEN AfterTranscoder(pre, tr) ELSE pre
        res == ExceptReturnNone(AfterRun(spawned, tr, post))
    IN  IF CacheHit(pre)
        THEN [files |-> files,
              call |-> [key |-> key, out |-> out, pre |-> pre, ran |-> FALSE,
                        ss |-> ss, dur |-> dur, exit |-> -1, ret |-> "out",
                        raised |-> FALSE]]
        ELSE [files |-> [files EXCEPT ![out] = post],
              call |-> [key |-> key, out |-> out, pre |-> pre, ran |-> spawned,
                        ss |-> ss, dur |-> dur,
                        exit |-> IF spawned THEN tr.exit ELSE -1,
                        ret |-> IF res = "raise" THEN "" ELSE res,
                        raised |-> (res = "raise")]]

----------------------------------------------------------------------------
(* Specification of the snippet cache: calls of make_snippet, one after the *)
(* other, for the rows of one media file, with any transcoder behaviour.    *)

SnMedia == {"m1"}
SnRows  == { [start_ms |-> 300, end_ms |-> 1000], [start_ms |-> 5000, end_ms |-> 4100] }
SnNames == {CacheName(CacheKey(m, r.start_ms, r.end_ms, PAD_MS)) : m \in SnMedia, r \in SnRows}

\* what the transcoder can do: exit code, and the size of the file it wrote
TranscoderOutcomes == [exit : {0, 1}, wrote : {-1, 0, CACHE_MIN_SIZE, 4 * CACHE_MIN_SIZE}]

InitSnippet ==
    /\ NzIdle /\ DbEmpty /\ HlIdle /\ QIdle
    /\ PlIdle /\ LrcIdle /\ WkIdle /\ PIdle
    /\ sn_files = [n \in SnNames |-> NoFile]
    /\ sn_last = NoCall

MakeSnippet ==
    \E m \in SnMedia, r \in SnRows, spawned \in BOOLEAN, tr \in TranscoderOutcomes :
        LET c == make_snippet(sn_files, m, r.start_ms, r.end_ms, PAD_MS, spawned, tr)
        IN  /\ sn_files' = c.files
            /\ sn_last' = c.call
            /\ UNCHANGED <<nzvars, dbvars, hlvars, qvars, plvars, lrcvars, wkvars, pvars>>

NextSnippet == MakeSnippet

SpecSnippet == InitSnippet /\ [][NextSnippet]_vars

SnCalled == sn_last.key # <<>>

\* C11 as stated: a call maps its key to the one cache name of that key, and
\* when the file at that name was left by an extraction that succeeded, the
\* call returns it without invoking the transcoder.
C11_CacheDeterminism ==
    SnCalled =>
        /\ sn_last.out = CacheName(sn_last.key)
        /\ sn_last.pre.by = "ok" => (~sn_last.ran /\ sn_last.ret = "out")

\* C11 amended: a call maps its key to the one cache name of that key, and
\* when the file at that name is larger than the 1024-byte threshold the call
\* returns it unchanged without invoking the transcoder; after a successful
\* extraction of a clip of at most 1024 bytes the call is a miss.
C11_CacheHitAboveThreshold ==
    SnCalled =>
        /\ sn_last.out = CacheName(sn_last.key)
        /\ sn_last.pre.size > 1024 =>
              /\ ~sn_last.ran
              /\ sn_last.ret = "out"
              /\ sn_files[sn_last.out] = sn_last.pre
        /\ (sn_last.pre.by = "ok" /\ ~sn_last.ran /\ sn_last.ret = "out")
              => sn_last.pre.size > 1024

\* a second call for a clip that a successful run extracted: a hit
C11_Witness ==
    /\ SnCalled
    /\ sn_last.pre.by = "ok"
    /\ sn_last.pre.size > 1024
    /\ ~sn_last.ran
    /\ sn_last.ret = "out"

\* C12: a call whose transcoder fails, or leaves no output, returns None,
\* and a file that a failed run left at the cache name is never returned by
\* a later call as a cache hit.
C12_FailureNotCached ==
    SnCalled =>
        /\ (sn_last.ran /\ sn_last.exit # 0) => sn_last.ret = "None"
        /\ (sn_last.ran /\ sn_files[sn_last.out].size < 0) => sn_last.ret = "None"
        /\ (~sn_last.ran /\ sn_last.ret = "out") => sn_last.pre.by # "failed"

\* C13: make_snippet never raises; it returns None on a transcoder error, a
\* spawn error or a missing output file, and a path only when the file at
\* that path exists.
C13_NeverRaises ==
    SnCalled =>
        /\ ~sn_last.raised
        /\ sn_last.ret \in {"out", "None"}
        /\ sn_last.ret = "out" => sn_files[sn_last.out].size >= 0
        /\ (sn_last.ran /\ sn_last.exit # 0) => sn_last.ret = "None"
        /\ (~sn_last.ran /\ ~CacheHit(sn_last.pre)) => sn_last.ret = "None"
        /\ sn_files[sn_last.out].size < 0 => sn_last.ret = "None"

\* the transcoder exited with an error and left nothing: None
C13_Witness ==
    /\ SnCalled
    /\ sn_last.ran
    /\ sn_last.exit # 0
    /\ sn_files[sn_last.out].size < 0
    /\ sn_last.ret = "None"

----------------------------------------------------------------------------
(* Media resolver and playback (app_ui.py, play_snippet.py).  A path is its *)
(* directory (the names from the top), the stem and the extension of its    *)
(* last name.  The disk is the sequence of its files in the order the       *)
(* operating system lists them.                                             *)

\* the known media extensions, in the order find_media_candidates tries them
MEDIA_EXTS ==
    <<"mkv", "mp4", "ts", "m4v", "avi", "mov", "mp3", "flac", "m4a", "aac", "wav", "ogg">>

\* p.suffix.lower()
Lower(ext) == IF ext = "MKV" THEN "mkv" ELSE ext

IsMediaExt(ext) == \E i \in DOMAIN MEDIA_EXTS : MEDIA_EXTS[i] = ext

\* p.exists()
Exists(disk, p) == \E i \in DOMAIN disk : disk[i] = p

\* the directories that exist
ExistingDirs == { <<"lib">>, <<"lib", "s1">>, <<"else">> }

\* for ext in [...]: p = folder / f"{stem}{ext}"; if p.exists(): append
Siblings(disk, source_path) ==
    SelectSeq([i \in DOMAIN MEDIA_EXTS |->
                  [dir |-> source_path.dir, stem |-> source_path.stem,
                   ext |-> MEDIA_EXTS[i]]],
              LAMBDA p : Exists(disk, p))

\* for p in folder.iterdir(): if p.is_file() and p.suffix.lower() in {...}
DirMedia(disk, dir) == SelectSeq(disk, LAMBDA p : p.dir = dir /\ IsMediaExt(Lower(p.ext)))

SameDirFindsBoth(disk, source_path) ==
    Siblings(disk, source_path) \o DirMedia(disk, source_path.dir)

\* the source-path stage: the same-stem siblings, else any media of the folder
SameDirFinds(disk, source_path) ==
    IF Siblings(disk, source_path) # <<>> THEN Siblings(disk, source_path)
    ELSE DirMedia(disk, source_path.dir)

\* dir is root or lies below it
Under(dir, root) == Len(root) <= Len(dir) /\ SubSeq(dir, 1, Len(root)) = root

\* for ext in [...]: for p in media_root.rglob(f"{stem}{ext}"): append
RECURSIVE RootFindsFrom(_, _, _, _)
RootFindsFrom(disk, root, stem, i) ==
    IF i > Len(MEDIA_EXTS) THEN <<>>
    ELSE SelectSeq(disk, LAMBDA p : Under(p.dir, root) /\ p.stem = stem
                                     /\ p.ext = MEDIA_EXTS[i])
         \o RootFindsFrom(disk, root, stem, i + 1)

\* for p in media_root.glob("*"): if p.is_file() and p.suffix.lower() in {...}
RootTopMedia(disk, root) == DirMedia(disk, root)

UniqKeepAll(ps) == ps

\* uniq: the first occurrence of every path, in order
RECURSIVE Uniq(_)
Uniq(ps) ==
    IF ps = <<>> THEN <<>>
    ELSE LET init == Uniq(SubSeq(ps, 1, Len(ps) - 1))
             p == ps[Len(ps)]
         IN  IF \E i \in DOMAIN init : init[i] = p THEN init ELSE Append(init, p)

\* find_media_candidates(source_path, media_root): the candidates, or raised
\* when folder.iterdir() meets a folder that does not exist
find_media_candidates(disk, source_path, media_root) ==
    LET hasSrc == source_path # NoPath
        stageA == IF hasSrc THEN SameDirFinds(disk, source_path) ELSE <<>>
        raised == /\ hasSrc
                  /\ Siblings(disk, source_path) = <<>>
                  /\ source_path.dir \notin ExistingDirs
        stageB == IF media_root = NoPath THEN <<>>
                  ELSE IF hasSrc
                       THEN RootFindsFrom(disk, media_root.dir, source_path.stem, 1)
                  ELSE IF stageA = <<>> THEN RootTopMedia(disk, media_root.dir)
                  ELSE <<>>
    IN  IF raised THEN [raised |-> TRUE, cands |-> <<>>]
        ELSE [raised |-> FALSE, cands |-> Uniq(stageA \o stageB)]

LinkRowByFolder(links, source_path) ==
    IF /\ source_path # NoPath
       /\ source_path.stem \in DOMAIN links
       /\ links[source_path.stem].dir = source_path.dir
    THEN links[source_path.stem] ELSE NoPath

\* row = SELECT media_path FROM media_links WHERE stem = ?
LinkRow(links, source_path) ==
    IF source_path # NoPath /\ source_path.stem \in DOMAIN links
    THEN links[source_path.stem] ELSE NoPath

get_bound_media_unchecked(links, disk, source_path) == LinkRow(links, source_path)

\* get_bound_media: the bound path if there is a row and the path exists
get_bound_media(links, disk, source_path) ==
    LET row == LinkRow(links, source_path)
    IN  IF row # NoPath /\ Exists(disk, row) THEN row ELSE NoPath

bind_media_noop(links, source_path, media_path) == links

\* bind_media: INSERT OR REPLACE INTO media_links(stem, media_path)
bind_media(links, source_path, media_path) ==
    [st \in DOMAIN links \cup {source_path.stem} |->
        IF st = source_path.stem THEN media_path ELSE links[st]]

\* MainWindow.play_selected on a row with source path src and the times of
\* row: ok and pick are the answer to the candidate dialog, internal the
\* player checkbox, tool whether ffmpeg / ffplay is at hand, tr what the
\* transcoder does.  Gives the media_links table and the cache files
\* afterwards, the make_snippet call (NoCall without one) and the record of
\* the run.
play_selected(links, disk, root, files, src, row, ok, pick, internal, tool, tr) ==
    LET link  == LinkRow(links, src)
        bound == get_bound_media(links, disk, src)
        searched == bound = NoPath
        found == IF searched THEN find_media_candidates(disk, src, root)
                 ELSE [raised |-> FALSE, cands |-> <<>>]
        chosen == searched /\ ~found.raised /\ found.cands # <<>> /\ ok
        media == IF ~searched THEN bound
                 ELSE IF chosen THEN found.cands[pick] ELSE NoPath
        links2 == IF chosen /\ src # NoPath THEN bind_media(links, src, media) ELSE links
        snip == make_snippet(files, media, row.start_ms, row.end_ms, PAD_MS, TRUE, tr)
        rec(outcome) ==
            [src |-> src, row |-> link, bound |-> bound, searched |-> searched,
             cands |-> found.cands, confirmed |-> chosen, media |-> media,
             outcome |-> outcome, disk |-> disk]
    IN  IF found.raised
        THEN [links |-> links, files |-> files, call |-> NoCall, play |-> rec("raised")]
        ELSE IF searched /\ found.cands = <<>>
        THEN [links |-> links, files |-> files, call |-> NoCall,
              play |-> rec("no_candidates")]
        ELSE IF searched /\ ~ok
        THEN [links |-> links, files |-> files, call |-> NoCall, play |-> rec("cancelled")]
        ELSE IF ~tool
        THEN [links |-> links2, files |-> files, call |-> NoCall, play |-> rec("no_tool")]
        ELSE IF ~internal
        THEN [links |-> links2, files |-> files, call |-> NoCall,
              play |-> rec("played_external")]
        ELSE [links |-> links2, files |-> snip.files, call |-> snip.call,
              play |-> rec(IF snip.call.ret = "out" THEN "played" ELSE "snippet_failed")]

----------------------------------------------------------------------------
(* Specification of playback: a disk with some of three media files, a      *)
(* media root configured or not, an empty media_links table; rows are       *)
(* played, and media files are removed from the disk, in any order.         *)

PlFiles ==
    { [dir |-> <<"lib", "s1">>, stem |-> "ep1", ext |-> "mkv"],
      [dir |-> <<"lib", "s1">>, stem |-> "zz", ext |-> "MKV"],
      [dir |-> <<"lib">>, stem |-> "ep1", ext |-> "mp3"] }

PlSources ==
    { NoPath,
      [dir |-> <<"lib", "s1">>, stem |-> "ep1", ext |-> "srt"],
      [dir |-> <<"else">>, stem |-> "ep1", ext |-> "srt"],
      [dir |-> <<"gone">>, stem |-> "ep9", ext |-> "srt"] }

\* the listings of the disk: some of the files, each once, in any order
PlListings ==
    {l \in SeqsUpTo(PlFiles, Cardinality(PlFiles)) :
        \A i \in DOMAIN l : \A j \in DOMAIN l : l[i] = l[j] => i = j}

PlRoots == {NoPath, [dir |-> <<"lib">>, stem |-> "", ext |-> ""]}

PlRow == [start_ms |-> 300, end_ms |-> 1000]

PlNames == {CacheName(CacheKey(m, PlRow.start_ms, PlRow.end_ms, PAD_MS)) : m \in PlFiles}

\* the transcoder of this specification works, or fails and writes nothing
PlTranscoder == { [exit |-> 0, wrote |-> 4 * CACHE_MIN_SIZE], [exit |-> 1, wrote |-> -1] }

InitPlay ==
    /\ NzIdle /\ DbEmpty /\ HlIdle /\ QIdle
    /\ LrcIdle /\ WkIdle /\ PIdle
    /\ sn_files = [n \in PlNames |-> NoFile]
    /\ sn_last = NoCall
    /\ ml_links = <<>>
    /\ fs_media \in PlListings
    /\ cfg_root \in PlRoots
    /\ ps_last = NoPlay

PlaySelected ==
    \E src \in PlSources :
        LET bound == get_bound_media(ml_links, fs_media, src)
            found == find_media_candidates(fs_media, src, cfg_root)
            asked == bound = NoPath /\ ~found.raised /\ found.cands # <<>>
            works == [exit |-> 0, wrote |-> 4 * CACHE_MIN_SIZE]
        IN  \* an input the run does not read has one value
            \E ok \in (IF asked THEN BOOLEAN ELSE {TRUE}) :
            \E pick \in (IF asked /\ ok THEN 1 .. Len(found.cands) ELSE {1}) :
            \E tool \in (IF bound # NoPath \/ (asked /\ ok) THEN BOOLEAN ELSE {TRUE}) :
            \E internal \in (IF (bound # NoPath \/ (asked /\ ok)) /\ tool
                              THEN BOOLEAN ELSE {TRUE}) :
            \E tr \in (IF (bound # NoPath \/ (asked /\ ok)) /\ tool /\ internal
                        THEN PlTranscoder ELSE {works}) :
                LET r == play_selected(ml_links, fs_media, cfg_root, sn_files, src,
                                       PlRow, ok, pick, internal, tool, tr)
                IN  /\ ml_links' = r.links
                    /\ sn_files' = r.files
                    /\ sn_last' = IF r.call = NoCall THEN sn_last ELSE r.call
                    /\ ps_last' = r.play
                    /\ UNCHANGED <<fs_media, cfg_root, nzvars, dbvars, hlvars, qvars,
                                   lrcvars, wkvars, pvars>>

\* a media file is deleted from the disk
RemoveMedia ==
    \E i \in DOMAIN fs_media :
        /\ fs_media' = SelectSeq(fs_media, LAMBDA p : p # fs_media[i])
        /\ UNCHANGED <<ml_links, cfg_root, ps_last, snvars, nzvars, dbvars, hlvars,
                       qvars, lrcvars, wkvars, pvars>>

NextPlay == PlaySelected \/ RemoveMedia

SpecPlay == InitPlay /\ [][NextPlay]_vars

Played == ps_last.outcome # "idle"

InSourceDir == SelectSeq(ps_last.cands, LAMBDA p : p.dir = ps_last.src.dir)

\* the files of the folder of the source named stem + a known extension
StemFiles ==
    {p \in {ps_last.disk[i] : i \in DOMAIN ps_last.disk} :
        p.dir = ps_last.src.dir /\ p.stem = ps_last.src.stem /\ IsMediaExt(p.ext)}

\* the media files of the folder of the source
FolderMedia ==
    {p \in {ps_last.disk[i] : i \in DOMAIN ps_last.disk} :
        p.dir = ps_last.src.dir /\ IsMediaExt(Lower(p.ext))}

AsSet(ps) == {ps[i] : i \in DOMAIN ps}

\* C16: a candidate search with a source path finds, in the folder of the
\* source, exactly the files named stem + known extension, each once, and
\* exactly the media files of the folder when there is no such file; with
\* no media root these are all the candidates, so for ep1.srt beside
\* ep1.mkv the list is [ep1.mkv].
C16_SameDirCandidates ==
    (Played /\ ps_last.searched /\ ps_last.src # NoPath /\ ps_last.outcome # "raised") =>
        /\ Len(InSourceDir) = Cardinality(AsSet(InSourceDir))
        /\ StemFiles # {} => AsSet(InSourceDir) = StemFiles
        /\ StemFiles = {} => AsSet(InSourceDir) = FolderMedia
        /\ cfg_root = NoPath => ps_last.cands = InSourceDir
        /\ (cfg_root = NoPath /\ StemFiles = {[dir |-> <<"lib", "s1">>, stem |-> "ep1",
                                              ext |-> "mkv"]}) =>
              ps_last.cands = <<[dir |-> <<"lib", "s1">>, stem |-> "ep1", ext |-> "mkv"]>>

\* ep1.srt beside ep1.mkv and another media file, no binding, no media root
C16_Witness ==
    /\ Played
    /\ ps_last.src = [dir |-> <<"lib", "s1">>, stem |-> "ep1", ext |-> "srt"]
    /\ ps_last.row = NoPath
    /\ cfg_root = NoPath
    /\ Len(ps_last.disk) = 3
    /\ ps_last.cands = <<[dir |-> <<"lib", "s1">>, stem |-> "ep1", ext |-> "mkv"]>>

----------------------------------------------------------------------------
(* Background ingest: IndexerWorker.run (indexer_gui.py), step by step,     *)
(* with cancel() called from the window's thread at any moment.  A file is  *)
(* the number of entries its parse yields and what goes wrong with it:      *)
(* nothing, the parser raises, or insert_batch raises after its rows went   *)
(* into the open transaction.  A batch is the rows one file wrote.          *)

\* if total_entries % 1000 == 0: conn.commit()
COMMIT_EVERY == 1000

\* a signal emitted: which one, and its arguments
Sig(sig, kind, i, n, ok) == [sig |-> sig, kind |-> kind, i |-> i, n |-> n, ok |-> ok]

SigStage(stage)    == Sig("stage", stage, 0, 0, TRUE)
SigLog(kind, i, n) == Sig("log", kind, i, n, TRUE)
SigFiles(i, total) == Sig("progress_files", "", i, total, TRUE)
SigEntries(total)  == Sig("progress_entries", "", 0, total, TRUE)
SigDone(ok, why)   == Sig("done", why, 0, 0, ok)

CancelSeenNever(flag) == FALSE

\* if self._cancel:
CancelSeen(flag) == flag

StopCancelledSilent ==
    /\ wk_pc' = "ended"
    /\ wk_txn' = <<>>
    /\ UNCHANGED <<wk_files, wk_i, wk_cancel, wk_total, wk_db, wk_sigs>>

\* conn.close(); self.sig_done.emit(False, "已取消"); return -- the open
\* transaction is not committed
StopCancelled ==
    /\ wk_pc' = "ended"
    /\ wk_txn' = <<>>
    /\ wk_sigs' = Append(wk_sigs, SigDone(FALSE, "cancelled"))
    /\ UNCHANGED <<wk_files, wk_i, wk_cancel, wk_total, wk_db>>

AfterFileErrorAbort(i, n) == "abort"

\* except Exception as ex: log the warning and go on with the loop
AfterFileError(i, n) == IF i < n THEN "check" ELSE "finish"

\* run() up to the scan: connect and ensure_schema, which may raise
WkStart ==
    /\ wk_pc = "start"
    /\ \E storage_ok \in BOOLEAN :
          IF storage_ok
          THEN /\ wk_pc' = "scan"
               /\ wk_sigs' = Append(wk_sigs, SigStage("scan"))
          ELSE /\ wk_pc' = "abort"
               /\ wk_sigs' = wk_sigs
    /\ UNCHANGED <<wk_files, wk_i, wk_cancel, wk_total, wk_txn, wk_db>>

\* one path of the scan loop: stop if cancelled, else take the file; after
\* the last one report the count and enter the indexing stage
WkScan ==
    /\ wk_pc = "scan"
    /\ IF wk_i < Len(wk_files)
       THEN IF CancelSeen(wk_cancel) THEN StopCancelled
            ELSE /\ wk_i' = wk_i + 1
                 /\ UNCHANGED <<wk_pc, wk_files, wk_cancel, wk_total, wk_txn, wk_db,
                                wk_sigs>>
       ELSE /\ wk_i' = 0
            /\ wk_pc' = IF Len(wk_files) > 0 THEN "check" ELSE "finish"
            /\ wk_sigs' = wk_sigs \o <<SigLog("found", 0, Len(wk_files)),
                                       SigStage("index")>>
            /\ UNCHANGED <<wk_files, wk_cancel, wk_total, wk_txn, wk_db>>

\* the top of the indexing loop: stop if cancelled
WkCheck ==
    /\ wk_pc = "check"
    /\ IF CancelSeen(wk_cancel) THEN StopCancelled
       ELSE /\ wk_pc' = "file"
            /\ UNCHANGED <<wk_files, wk_i, wk_cancel, wk_total, wk_txn, wk_db, wk_sigs>>

\* the body of the indexing loop for file wk_i + 1: parse, clean, insert the
\* batch, count, commit on a multiple of 1000, log; or log the warning
WkFile ==
    /\ wk_pc = "file"
    /\ LET i == wk_i + 1
           f == wk_files[i]
           total == wk_total + f.n
           batch == [file |-> i, n |-> f.n, whole |-> f.fault = "none"]
           txn == IF f.n > 0 /\ f.fault # "parse" THEN Append(wk_txn, batch) ELSE wk_txn
           commits == f.fault = "none" /\ f.n > 0 /\ total % COMMIT_EVERY = 0
       IN  /\ wk_i' = i
           /\ wk_total' = IF f.fault = "none" THEN total ELSE wk_total
           /\ wk_txn' = IF commits THEN <<>> ELSE txn
           /\ wk_db' = IF commits THEN wk_db \o txn ELSE wk_db
           /\ wk_sigs' = wk_sigs
                 \o <<IF f.fault = "none" THEN SigLog("file", i, f.n)
                      ELSE SigLog("warn", i, 0)>>
                 \o <<SigFiles(i, Len(wk_files)), SigEntries(wk_total')>>
           /\ wk_pc' = IF f.fault = "none"
                       THEN (IF i < Len(wk_files) THEN "check" ELSE "finish")
                       ELSE AfterFileError(i, Len(wk_files))
    /\ UNCHANGED <<wk_files, wk_cancel>>

\* after the loop: commit, create the indexes, commit, close, done; the
\* commit may raise
WkFinish ==
    /\ wk_pc = "finish"
    /\ \E commit_ok \in BOOLEAN :
          IF commit_ok
          THEN /\ wk_pc' = "ended"
               /\ wk_db' = wk_db \o wk_txn
               /\ wk_txn' = <<>>
               /\ wk_sigs' = Append(wk_sigs, SigDone(TRUE, "complete"))
          ELSE /\ wk_pc' = "abort"
               /\ UNCHANGED <<wk_db, wk_txn, wk_sigs>>
    /\ UNCHANGED <<wk_files, wk_i, wk_cancel, wk_total>>

\* the outer except Exception: done(False, ...); the connection is dropped
\* with its transaction open
WkAbort ==
    /\ wk_pc = "abort"
    /\ wk_pc' = "ended"
    /\ wk_txn' = <<>>
    /\ wk_sigs' = Append(wk_sigs, SigDone(FALSE, "exception"))
    /\ UNCHANGED <<wk_files, wk_i, wk_cancel, wk_total, wk_db>>

\* IndexerWorker.cancel(), called by IndexerWindow.cancel_build
Cancel ==
    /\ wk_pc # "ended"
    /\ ~wk_cancel
    /\ wk_cancel' = TRUE
    /\ UNCHANGED <<wk_pc, wk_files, wk_i, wk_total, wk_txn, wk_db, wk_sigs>>

----------------------------------------------------------------------------
(* Specification of the worker: up to MaxFiles files under the roots, one   *)
(* run, one cancel at any moment.                                           *)

MaxFiles == 3

WkFileKinds ==
    { [n |-> 0, fault |-> "none"], [n |-> 400, fault |-> "none"],
      [n |-> 600, fault |-> "none"], [n |-> 0, fault |-> "parse"],
      [n |-> 400, fault |-> "insert"] }

InitWorker ==
    /\ NzIdle /\ DbEmpty /\ HlIdle /\ QIdle
    /\ SnIdle /\ PlIdle /\ LrcIdle /\ PIdle
    /\ wk_pc = "start"
    /\ wk_files \in SeqsUpTo(WkFileKinds, MaxFiles)
    /\ wk_i = 0
    /\ wk_cancel = FALSE
    /\ wk_total = 0
    /\ wk_txn = <<>>
    /\ wk_db = <<>>
    /\ wk_sigs = <<>>

NextWorker ==
    /\ WkStart \/ WkScan \/ WkCheck \/ WkFile \/ WkFinish \/ WkAbort \/ Cancel
    /\ UNCHANGED <<nzvars, dbvars, hlvars, qvars, snvars, plvars, lrcvars, pvars>>

SpecWorker == InitWorker /\ [][NextWorker]_vars

\* the worker's thread is started and keeps running: run() takes its next
\* step as long as it has one
WorkerSteps ==
    /\ WkStart \/ WkScan \/ WkCheck \/ WkFile \/ WkFinish \/ WkAbort
    /\ UNCHANGED <<nzvars, dbvars, hlvars, qvars, snvars, plvars, lrcvars, pvars>>

SpecWorkerLive == SpecWorker /\ WF_vars(WorkerSteps)

----------------------------------------------------------------------------
(* Cancellation and per-file failures of the worker.                        *)

HasSig(s) == \E k \in 1..Len(wk_sigs) : wk_sigs[k] = s

EndedAs(ok, why) ==
    /\ wk_pc = "ended"
    /\ wk_sigs # <<>>
    /\ wk_sigs[Len(wk_sigs)] = SigDone(ok, why)

\* how many files the indexing loop has been through
Indexed == IF HasSig(SigStage("index")) THEN wk_i ELSE 0

RECURSIVE CountedEntries(_, _)
CountedEntries(files, k) ==
    IF k = 0 THEN 0
    ELSE CountedEntries(files, k - 1)
         + (IF files[k].fault = "none" THEN files[k].n ELSE 0)

\* C18: ingest cancellation is cooperative.  No file is parsed except right
\* after a check that read the flag unset; a check (in the scan, per path, or
\* at the top of the indexing loop) that reads the flag set ends the run at
\* once with done(ok = false, cancelled), parsing nothing more, writing
\* nothing to the store and dropping the open transaction; the store changes
\* only by a commit, which appends the whole open transaction; and after the
\* run has ended nothing changes any more.
C18_CooperativeCancel ==
    [][ /\ (wk_pc' = "file" /\ wk_pc # "file") => (wk_pc = "check" /\ ~wk_cancel)
        /\ (wk_i' # wk_i /\ wk_pc = "file") => ~HasSig(SigDone(FALSE, "cancelled"))
        /\ ( /\ wk_cancel
             /\ \/ wk_pc = "check"
                \/ wk_pc = "scan" /\ wk_i < Len(wk_files) )
           => /\ wk_pc' = "ended"
              /\ wk_sigs' = Append(wk_sigs, SigDone(FALSE, "cancelled"))
              /\ wk_db' = wk_db
              /\ wk_txn' = <<>>
              /\ wk_i' = wk_i /\ wk_total' = wk_total
        /\ (wk_db' # wk_db)
           => /\ wk_pc \in {"file", "finish"}
              /\ \E k \in 0..1 : /\ Len(wk_txn) + k > 0
                                 /\ Len(wk_db') = Len(wk_db) + Len(wk_txn) + k
                                 /\ SubSeq(wk_db', 1, Len(wk_db)) = wk_db
              /\ wk_txn' = <<>>
        /\ (wk_pc = "ended") => UNCHANGED <<wk_pc, wk_db, wk_txn, wk_sigs, wk_i, wk_total>>
      ]_vars

\* a run cancelled in the indexing loop after a file was ingested, with
\* files left unparsed and the uncommitted batch lost
C18_Witness ==
    /\ EndedAs(FALSE, "cancelled")
    /\ Indexed >= 1 /\ Indexed < Len(wk_files)
    /\ wk_total > 0
    /\ wk_db = <<>> /\ wk_txn = <<>>

C19_Logged ==
    /\ \A i \in 1..Indexed :
          /\ HasSig(SigFiles(i, Len(wk_files)))
          /\ IF wk_files[i].fault = "none"
             THEN /\ HasSig(SigLog("file", i, wk_files[i].n))
                  /\ ~HasSig(SigLog("warn", i, 0))
             ELSE /\ HasSig(SigLog("warn", i, 0))
                  /\ \A n \in {f.n : f \in WkFileKinds} : ~HasSig(SigLog("file", i, n))
    /\ wk_total = CountedEntries(wk_files, Indexed)
    /\ \A k \in 1..Len(wk_db) :
          wk_files[wk_db[k].file].fault # "parse"
    /\ EndedAs(TRUE, "complete") => Indexed = Len(wk_files)
    /\ wk_pc = "ended" =>
          \/ EndedAs(TRUE, "complete")
          \/ EndedAs(FALSE, "cancelled") /\ wk_cancel
          \/ EndedAs(FALSE, "exception") /\ Indexed \in {0, Len(wk_files)}

C19_Continues ==
    /\ (wk_pc = "file" /\ wk_pc' # "file")
       => /\ wk_i' = wk_i + 1
          /\ wk_pc' = IF wk_i' < Len(wk_files) THEN "check" ELSE "finish"
    /\ (wk_pc' = "abort" /\ wk_pc # "abort") => wk_pc \in {"start", "finish"}
    /\ (wk_pc = "finish" /\ wk_pc' = "ended") => EndedAs(TRUE, "complete")'

\* C19: ingest failures are per-file and non-fatal.  A file whose parsing or
\* indexing raised has a warning in the log and no line count, is not
\* counted in the entry total and, when parsing raised, has no row in the
\* store; the loop goes on to the next file (or to the final commit) after
\* it exactly as after a good file, so a run that is not cancelled reaches
\* the final commit having been through every file and ends with
\* done(ok = true) when that commit succeeds; the run ends as failed only
\* from a failure before the scan or in the final commit.
C19_PerFileNonFatal == []C19_Logged /\ [][C19_Continues]_vars

\* a run that ended successfully with a failed file followed by an
\* ingested one whose rows are in the store
C19_Witness ==
    /\ EndedAs(TRUE, "complete")
    /\ \E i, j \in 1..Len(wk_files) :
          /\ i < j
          /\ wk_files[i].fault # "none"
          /\ wk_files[j].fault = "none" /\ wk_files[j].n > 0
          /\ HasSig(SigLog("warn", i, 0))
          /\ \E k \in 1..Len(wk_db) : wk_db[k].file = j

----------------------------------------------------------------------------
(* Reading derivation.  The reading of the tokens of one text, as each      *)
(* place of the program derives it: the two index builders, the query       *)
(* compiler, the query parser and the highlighter.                          *)

\* read = m.reading_form() or surf, for every morpheme of the text
highlight_readings(text) ==
    LET ms == tokenize(text)
    IN  [i \in DOMAIN ms |-> ReadingOrSurface(ms[i])]

MaxReadLen == 3

RdChars == {"a", "K", " ", "x", "s"}

InitReading ==
    /\ NzIdle /\ DbEmpty /\ HlIdle /\ QIdle
    /\ SnIdle /\ PlIdle /\ LrcIdle /\ WkIdle /\ SiIdle /\ RcIdle
    /\ rd_pc = "text"
    /\ rd_text \in SeqsUpTo(RdChars, MaxReadLen)
    /\ rd_out = <<>>

DeriveReadings ==
    /\ rd_pc = "text"
    /\ rd_pc' = "done"
    /\ rd_out' = [index_cli |-> bi_tokenize_reading_kana(rd_text),
                  index_gui |-> ig_tokenize_reading_kana(rd_text),
                  query     |-> tokenize_reading(rd_text),
                  parse     |-> parse_query(rd_text).read_set,
                  highlight |-> highlight_readings(rd_text)]
    /\ UNCHANGED <<rd_text, nzvars, dbvars, hlvars, qvars, snvars, plvars, lrcvars,
                   wkvars, sivars, rcvars>>

NextReading == DeriveReadings

SpecReading == InitReading /\ [][NextReading]_vars

\* the reading of a morpheme with "*" and the empty reading replaced by
\* the surface
FallbackReading(m) ==
    IF m.reading_form \in {<<>>, <<"*">>} THEN m.surface ELSE m.reading_form

FallbackReadings(text) ==
    LET ms == tokenize(text)
    IN  StripNonEmpty([i \in DOMAIN ms |-> FallbackReading(ms[i])])

\* C21: every place that derives reading tokens replaces a reading that is
\* "*" or empty by the surface form, so the index builders, the query
\* compiler, the query parser and the highlighter produce the same reading
\* for the same token.
C21_ReadingFallback ==
    rd_pc = "done" =>
        /\ rd_out.index_cli = FallbackReadings(rd_text)
        /\ rd_out.index_gui = FallbackReadings(rd_text)
        /\ rd_out.query = FallbackReadings(rd_text)
        /\ rd_out.parse = {FallbackReadings(rd_text)[i] :
                              i \in DOMAIN FallbackReadings(rd_text)}
        /\ \A i \in DOMAIN rd_out.highlight :
              rd_out.highlight[i] = FallbackReading(tokenize(rd_text)[i])
        /\ rd_out.index_gui = rd_out.query
        /\ rd_out.index_cli = rd_out.query

----------------------------------------------------------------------------
(* Order of the normalizer's steps                                          *)

\* C22: jp_clean applies NFKC normalization, then strips the control
\* characters, then trims: its output is the trimmed, control-free NFKC form
\* of the input, and has no leading or trailing whitespace, also when the
\* whitespace was separated from the edge only by control characters.
C22_StepOrder ==
    nz_pc \in {"once", "twice"} =>
        /\ nz_out = Strip(clean_controls(Normalize(nz_in)))
        /\ nz_out # <<>> => ~IsSpace(nz_out[1]) /\ ~IsSpace(nz_out[Len(nz_out)])

----------------------------------------------------------------------------
(* Specification of subtract_intervals on its own: any interval a and any   *)
(* list of ranges bs over the offsets 0..MaxPos, in any order, overlapping  *)
(* or not, empty ranges included.                                           *)

MaxPos == 4
MaxRanges == 2

SiIntervals == {[s |-> x, e |-> y] : x \in 0..MaxPos, y \in 0..MaxPos} \ 
               {r \in [s : 0..MaxPos, e : 0..MaxPos] : r.s > r.e}

InitSubtract ==
    /\ NzIdle /\ DbEmpty /\ HlIdle /\ QIdle
    /\ SnIdle /\ PlIdle /\ LrcIdle /\ WkIdle /\ RdIdle /\ RcIdle
    /\ si_pc = "args"
    /\ si_a \in SiIntervals
    /\ si_bs \in SeqsUpTo(SiIntervals, MaxRanges)
    /\ si_out = <<>>

Subtract ==
    /\ si_pc = "args"
    /\ si_pc' = "done"
    /\ si_out' = subtract_intervals(si_a, si_bs)
    /\ UNCHANGED <<si_a, si_bs, nzvars, dbvars, hlvars, qvars, snvars, plvars, lrcvars,
                   wkvars, rdvars, rcvars>>

NextSubtract == Subtract

SpecSubtract == InitSubtract /\ [][NextSubtract]_vars

\* the offsets of the half-open interval r
Points(r) == {k \in 0..MaxPos : r.s <= k /\ k < r.e}

PointsOfAll(rs) == UNION {Points(rs[i]) : i \in DOMAIN rs}

\* C23: subtract_intervals(a, bs) is exactly the interval a minus the union
\* of the ranges of bs: its pieces cover the offsets of a that lie in no
\* range and nothing else, each piece is non-empty and inside a, no two
\* pieces overlap; and one subtracted range leaves no piece when it covers
\* a, one when it cuts off an edge, two when it falls strictly inside.
C23_IntervalDifference ==
    si_pc = "done" =>
        /\ PointsOfAll(si_out) = Points(si_a) \ PointsOfAll(si_bs)
        /\ \A i \in DOMAIN si_out :
              /\ si_out[i].s < si_out[i].e
              /\ si_a.s <= si_out[i].s /\ si_out[i].e <= si_a.e
        /\ \A i, j \in DOMAIN si_out :
              i < j => si_out[i].e <= si_out[j].s
        /\ (Len(si_bs) = 1 /\ si_a.s < si_a.e) =>
              LET b == si_bs[1]
              IN  Len(si_out) =
                     IF b.e <= si_a.s \/ b.s >= si_a.e THEN 1
                     ELSE (IF si_a.s < b.s THEN 1 ELSE 0)
                          + (IF b.e < si_a.e THEN 1 ELSE 0)

\* two ranges, the second one strictly inside what the first one left of a
C23_Witness ==
    /\ si_pc = "done"
    /\ Len(si_bs) = 2
    /\ Len(si_out) = 2
    /\ si_bs[1].s <= si_a.s /\ si_bs[1].e > si_a.s
    /\ si_out[1].s = si_bs[1].e
    /\ si_out[1].e = si_bs[2].s /\ si_out[2].s = si_bs[2].e
    /\ si_bs[2].s < si_bs[2].e

----------------------------------------------------------------------------
(* When the media_links table is written                                    *)

\* C24: a media_links row is created or overwritten only when the user
\* confirms a choice among candidates.  A run of play_selected that finds no
\* candidate, whose choice is cancelled, or whose media a valid binding
\* resolved leaves the table as it was, and so does everything that is not
\* a run of play_selected; a confirmed choice for a row with a source path
\* upserts exactly the row of the source stem, with the chosen candidate.
C24_LinkOnlyOnConfirm ==
    [][ LET p == ps_last'
            stem == p.src.stem
        IN  /\ (ml_links' # ml_links) =>
                  /\ ps_last' # ps_last
                  /\ p.searched /\ p.confirmed /\ p.src # NoPath
            /\ (ps_last' # ps_last /\ ( \/ ~p.searched
                                       \/ p.outcome \in {"no_candidates", "cancelled",
                                                         "raised"} ))
                  => ml_links' = ml_links
            /\ (ps_last' # ps_last /\ p.confirmed /\ p.src # NoPath) =>
                  /\ DOMAIN ml_links' = DOMAIN ml_links \cup {stem}
                  /\ ml_links'[stem] = p.media
                  /\ \E k \in DOMAIN p.cands : p.cands[k] = p.media
                  /\ \A st \in DOMAIN ml_links : st # stem => ml_links'[st] = ml_links[st]
      ]_vars

\* a confirmed choice that overwrote the stale binding of the stem
C24_Witness ==
    /\ ps_last.confirmed
    /\ ps_last.src # NoPath
    /\ ps_last.row # NoPath
    /\ ps_last.row # ps_last.media
    /\ ml_links[ps_last.src.stem] = ps_last.media

----------------------------------------------------------------------------
(* The candidate list across the stages, and what a binding is keyed by     *)

\* the files below the media root named stem + a known extension
StemUnderRoot ==
    IF cfg_root = NoPath \/ ps_last.src = NoPath THEN {}
    ELSE {p \in AsSet(ps_last.disk) :
             /\ Under(p.dir, cfg_root.dir)
             /\ p.stem = ps_last.src.stem /\ IsMediaExt(p.ext)}

\* what the source-path stage of the last run found
SameDirPart ==
    IF ps_last.src = NoPath THEN <<>> ELSE SameDirFinds(ps_last.disk, ps_last.src)

\* C27: the candidate list holds no path twice and keeps the first-seen
\* order across the stages: it starts with the finds of the source folder,
\* in their order, followed by the finds below the media root that are not
\* among them, each once; so a file that both stages find, because the media
\* root contains the folder of the source, is listed once, at its place
\* among the finds of the folder.
C27_UniqueInOrder ==
    (Played /\ ps_last.searched /\ ps_last.outcome # "raised") =>
        /\ \A i, j \in DOMAIN ps_last.cands :
              ps_last.cands[i] = ps_last.cands[j] => i = j
        /\ Len(SameDirPart) <= Len(ps_last.cands)
        /\ SubSeq(ps_last.cands, 1, Len(SameDirPart)) = SameDirPart
        /\ ps_last.src # NoPath =>
              AsSet(ps_last.cands) = AsSet(SameDirPart) \cup StemUnderRoot
        /\ \A i, j \in DOMAIN ps_last.cands :
              (i < j /\ ps_last.cands[j] \in AsSet(SameDirPart))
                 => ps_last.cands[i] \in AsSet(SameDirPart)

\* the media root contains the folder of the source: ep1.mkv is found by
\* both stages and listed once, before the find of the root alone
C27_Witness ==
    /\ Played /\ ps_last.searched
    /\ cfg_root # NoPath
    /\ ps_last.src = [dir |-> <<"lib", "s1">>, stem |-> "ep1", ext |-> "srt"]
    /\ ps_last.cands = << [dir |-> <<"lib", "s1">>, stem |-> "ep1", ext |-> "mkv"],
                          [dir |-> <<"lib">>, stem |-> "ep1", ext |-> "mp3"] >>
    /\ [dir |-> <<"lib", "s1">>, stem |-> "ep1", ext |-> "mkv"] \in StemUnderRoot

\* C30: a binding is keyed by the stem of the source file alone.  When the
\* last run confirmed media M for source A and the next run plays another
\* source B with the same stem, in whatever folder: while M exists, B plays
\* M without candidate search and the table is left as it is; once M is
\* gone, B searches, and a choice confirmed for B replaces the row A reads.
\* At all times two sources with the same stem read the same row.
C30_KeyedByStem ==
    [][ /\ \A a, b \in PlSources \ {NoPath} :
              a.stem = b.stem => LinkRow(ml_links', a) = LinkRow(ml_links', b)
        /\ ( /\ ps_last' # ps_last
             /\ ps_last.confirmed
             /\ ps_last.src # NoPath /\ ps_last'.src # NoPath
             /\ ps_last'.src # ps_last.src
             /\ ps_last'.src.stem = ps_last.src.stem )
           => IF Exists(fs_media, ps_last.media)
              THEN /\ ps_last'.media = ps_last.media
                   /\ ~ps_last'.searched
                   /\ ps_last'.cands = <<>>
                   /\ ml_links' = ml_links
              ELSE /\ ps_last'.searched
                   /\ ps_last'.confirmed =>
                         /\ LinkRow(ml_links', ps_last.src) = ps_last'.media
                         /\ get_bound_media(ml_links', fs_media, ps_last.src)
                               = ps_last'.media
      ]_vars

\* no media root, so only the source beside the media can have a candidate
\* confirmed: the source of the same name in another folder plays that media
C30_Witness ==
    /\ Played
    /\ cfg_root = NoPath
    /\ ps_last.src = [dir |-> <<"else">>, stem |-> "ep1", ext |-> "srt"]
    /\ ~ps_last.searched
    /\ ps_last.media.dir = <<"lib", "s1">>
    /\ ps_last.outcome \in {"played", "played_external"}

----------------------------------------------------------------------------
(* Periodic commits of the worker                                           *)

\* the entries of the whole batches of bs
RECURSIVE BatchEntries(_)
BatchEntries(bs) ==
    IF bs = <<>> THEN 0
    ELSE (IF Head(bs).whole THEN Head(bs).n ELSE 0) + BatchEntries(Tail(bs))

\* the largest batch one file writes
LargestBatch ==
    CHOOSE n \in {f.n : f \in WkFileKinds} : \A f \in WkFileKinds : f.n <= n

\* C25: the worker commits every COMMIT_EVERY entries: when the loop turns
\* to the next file, no multiple of COMMIT_EVERY lies between the number of
\* entries committed and the running count, so the entries in the open
\* transaction, which a cancellation loses, are never more than
\* COMMIT_EVERY plus one file's batch.
C25_PeriodicCommit ==
    /\ wk_pc = "check" =>
          (wk_total \div COMMIT_EVERY) = (BatchEntries(wk_db) \div COMMIT_EVERY)
    /\ BatchEntries(wk_txn) <= COMMIT_EVERY + LargestBatch

----------------------------------------------------------------------------
(* The signals of one run                                                   *)

DoneSignals == SelectSeq(wk_sigs, LAMBDA x : x.sig = "done")

FileProgress == SelectSeq(wk_sigs, LAMBDA x : x.sig = "progress_files")

C28_Signals ==
    /\ Len(DoneSignals) <= 1
    /\ (wk_pc = "ended") <=> (Len(DoneSignals) = 1)
    /\ Len(DoneSignals) = 1 => wk_sigs[Len(wk_sigs)].sig = "done"
    /\ FileProgress = [i \in 1..Indexed |-> SigFiles(i, Len(wk_files))]
    /\ EndedAs(TRUE, "complete") => Len(FileProgress) = Len(wk_files)

\* C28: every run of IndexerWorker.run ends, and ends by emitting sig_done
\* exactly once: at most one sig_done is ever emitted, the run has ended
\* exactly when it has been, it is the last signal of the run, and every
\* run reaches it, completed, cancelled in the scan or in the indexing loop,
\* or failed; sig_progress_files is emitted once per file gone through, with
\* the indexes 1, 2, ... in order and the file count as total, up to the
\* total in a completed run.
C28_DoneExactlyOnce ==
    /\ []C28_Signals
    /\ [][wk_pc = "ended" => wk_sigs' = wk_sigs]_vars
    /\ <>(wk_pc = "ended" /\ Len(DoneSignals) = 1)

\* a run cancelled in the scan: one sig_done, no file progress
C28_Witness ==
    /\ EndedAs(FALSE, "cancelled")
    /\ ~HasSig(SigStage("index"))
    /\ Len(wk_files) >= 2
    /\ Len(DoneSignals) = 1
    /\ FileProgress = <<>>

----------------------------------------------------------------------------
(* The terms of the match expression                                        *)

\* C29: every column-qualified term of a match expression that
\* build_match_query returns is non-empty and holds no quote character,
\* also for a query with quotation marks.
C29_NoEmptyTerm ==
    (q_pc # "ready" /\ q_expr # NoExpr) =>
        \A g \in DOMAIN q_expr.groups :
            \A k \in DOMAIN q_expr.groups[g] :
                /\ q_expr.groups[g][k].term # <<>>
                /\ \A i \in DOMAIN q_expr.groups[g][k].term :
                      q_expr.groups[g][k].term[i] # "q"

----------------------------------------------------------------------------
(* Concurrent snippet requests.  make_snippet in steps: the hit test, the   *)
(* start of the transcoder (which opens the output path for overwriting,    *)
(* -y), and its end with the return.  Calls run side by side on one cache   *)
(* directory, as two windows of the program on one machine do.              *)

RcProcs == {1, 2}

\* a call about to start, for a row of the media
RcCall(row) ==
    [pc |-> "call", key |-> CacheKey("m1", row.start_ms, row.end_ms, PAD_MS),
     pre |-> NoFile, ran |-> FALSE, ret |-> ""]

\* key, h, out, and the test of out.exists() and st_size > 1024
RcCheck(p) ==
    LET c == rc_calls[p]
        pre == rc_files[CacheName(c.key)]
    IN  /\ c.pc = "call"
        /\ rc_calls' = [rc_calls EXCEPT ![p] =
               IF CacheHit(pre)
               THEN [c EXCEPT !.pc = "done", !.pre = pre, !.ret = "out"]
               ELSE [c EXCEPT !.pc = "miss", !.pre = pre]]
        /\ UNCHANGED <<rc_files, rc_wrote>>

\* subprocess.run starts the transcoder, which creates or truncates out; or
\* the process cannot be started
RcSpawn(p) ==
    LET c == rc_calls[p]
        out == CacheName(c.key)
    IN  /\ c.pc = "miss"
        /\ \E spawned \in BOOLEAN :
              IF spawned
              THEN /\ rc_calls' = [rc_calls EXCEPT ![p] =
                          [c EXCEPT !.pc = "running", !.ran = TRUE]]
                   /\ rc_files' = [rc_files EXCEPT ![out] = [size |-> 0, by |-> "partial"]]
                   /\ rc_wrote' = [rc_wrote EXCEPT ![out] = @ \cup {p}]
              ELSE /\ rc_calls' = [rc_calls EXCEPT ![p] =
                          [c EXCEPT !.pc = "done",
                                    !.ret = ExceptReturnNone(AfterRun(FALSE,
                                                [exit |-> -1, wrote |-> -1], c.pre))]]
                   /\ UNCHANGED <<rc_files, rc_wrote>>

\* the transcoder ends, having written what it wrote; subprocess.run
\* returns or raises, and make_snippet returns
RcExit(p) ==
    LET c == rc_calls[p]
        out == CacheName(c.key)
    IN  /\ c.pc = "running"
        /\ \E tr \in {t \in TranscoderOutcomes : t.wrote >= 0} :
              LET file == AfterTranscoder(rc_files[out], tr)
              IN  /\ rc_files' = [rc_files EXCEPT ![out] = file]
                  /\ rc_calls' = [rc_calls EXCEPT ![p] =
                         [c EXCEPT !.pc = "done",
                                   !.ret = ExceptReturnNone(AfterRun(TRUE, tr, file))]]
        /\ UNCHANGED rc_wrote

InitRace ==
    /\ NzIdle /\ DbEmpty /\ HlIdle /\ QIdle
    /\ SnIdle /\ PlIdle /\ LrcIdle /\ WkIdle /\ RdIdle /\ SiIdle
    /\ rc_calls \in [RcProcs -> {RcCall(r) : r \in SnRows}]
    /\ rc_files = [n \in SnNames |-> NoFile]
    /\ rc_wrote = [n \in SnNames |-> {}]

NextRace ==
    /\ \E p \in RcProcs : RcCheck(p) \/ RcSpawn(p) \/ RcExit(p)
    /\ UNCHANGED <<nzvars, dbvars, hlvars, qvars, snvars, plvars, lrcvars, wkvars,
                   rdvars, sivars>>

SpecRace == InitRace /\ [][NextRace]_vars

\* C26: make_snippet has no guard against a concurrent request.  What a
\* call does after its hit test depends on the file at the output path
\* alone: unless a file of more than CACHE_MIN_SIZE bytes is there, it goes
\* on to start the transcoder, whatever another call with the same key is
\* doing, and the transcoder it starts opens that same output path; so two
\* calls with one key on a cold cache can both miss, both run the
\* transcoder and both write the one path.
C26_NoGuard ==
    [][ \A p \in RcProcs :
          LET c == rc_calls[p]
              d == rc_calls'[p]
              out == CacheName(c.key)
          IN  /\ (c.pc = "call" /\ d.pc # "call") =>
                    /\ d.pre = rc_files[out]
                    /\ (d.pc = "miss") <=> ~(rc_files[out].size > CACHE_MIN_SIZE)
                    /\ (d.pc = "done") <=> (rc_files[out].size > CACHE_MIN_SIZE)
              /\ (c.pc = "miss" /\ d.pc = "running") =>
                    /\ p \in rc_wrote'[out]
                    /\ rc_files'[out].size = 0
              /\ d.ran => ~(d.pre.size > CACHE_MIN_SIZE)
      ]_vars

\* two calls with one key, both saw the cold cache, both ran the transcoder,
\* both wrote the one output path
C26_Witness ==
    /\ rc_calls # <<>>
    /\ rc_calls[1].key = rc_calls[2].key
    /\ \A p \in RcProcs :
          /\ rc_calls[p].pc = "done"
          /\ rc_calls[p].pre = NoFile
          /\ rc_calls[p].ran
    /\ rc_wrote[CacheName(rc_calls[1].key)] = RcProcs

====
